---- MODULE Spec2Model ----
(***************************************************************************)
(* A model of the libchewing phrase converter (src/src/conversion), of its  *)
(* dictionaries (src/src/dictionary.rs, src/src/dictionary), of the packed *)
(* Syllable (src/src/zhuyin), of the Hsu syllable editor                   *)
(* (src/src/editor/layout/hsu.rs), of the Standard, ET26, DachenCP26 and   *)
(* Pinyin editors (src/src/editor/phonetic) and of the user phrase calls   *)
(* of the C API (src/internal/src/capi/userphrase.rs).                     *)
(*                                                                         *)
(* A session appends committed syllables to a ChineseSequence, marks       *)
(* breaks and selections, and asks one of the two conversion engines       *)
(* (ExperimentalConversionEngine, ChewingConversionEngine) for a cover.    *)
(* Syllables are opaque dictionary keys; a phrase text is a sequence of    *)
(* characters, one string per character.                                   *)
(***************************************************************************)
EXTENDS Integers, Sequences, FiniteSets, TLC

VARIABLES
    dict,        \* the HashMap<Vec<Syllable>, Vec<Phrase>> the engine holds
    syllables,   \* ChineseSequence.syllables
    selections,  \* ChineseSequence.selections
    breaks,      \* ChineseSequence.breaks (positions, in insertion order)
    call,        \* the last converter call: engine, op, next
    result,      \* what that call produced: status and intervals
    layers,      \* LayeredDictionary.inner: the stack of dictionaries
    blocked,     \* LayeredDictionary.blocked: the block lists
    db,          \* the user dictionary file (the SQLite database)
    handle,      \* how the SqliteDictionary on that file is open
    last,        \* the last dictionary operation and what it returned
    pre,         \* layers and db as they were before that operation
    nops,        \* dictionary operations made so far
    syl,         \* a Syllable: its 16-bit value
    slast,       \* the last Syllable operation: argument, receiver, result
    editor,      \* a syllable editor: its layout and the Syllable it holds
    elast        \* the last editor call: key, KeyBehavior, buffer before it

cvars == <<dict, syllables, selections, breaks, call, result>>
dvars == <<layers, blocked, db, handle, last, pre, nops>>
zvars == <<syl, slast>>
evars == <<editor, elast>>
vars == <<cvars, dvars, zvars, evars>>

----------------------------------------------------------------------------
(* Bounds of the model.                                                    *)

MaxLen == 3          \* longest syllable sequence
MaxBreaks == 1       \* most breaks on a sequence
MaxSelections == 1   \* most selections on a sequence
MaxNext == 2         \* largest `next` passed to convert_next
MaxStackDepth == 12  \* nesting of find_all_paths the stack can hold

Syllables == {1, 2}  \* two distinct syllables

----------------------------------------------------------------------------
(* Data types.                                                             *)

Phrase(text, f) == [phrase |-> text, freq |-> f]

Interval(s, e, text) == [start |-> s, end |-> e, phrase |-> text]

\* Option<T> is a sequence of length 0 (None) or 1 (Some).
None == << >>
Some(x) == <<x>>

Min(a, b) == IF a < b THEN a ELSE b
Max(a, b) == IF a > b THEN a ELSE b

\* phrase.chars().skip(offset).take(len).collect()
SkipTake(text, offset, len) ==
    SubSeq(text, offset + 1, Min(offset + len, Len(text)))

\* &sequence.syllables[s..t]
Slice(seq, s, t) == SubSeq(seq, s + 1, t)

----------------------------------------------------------------------------
(* Dictionaries the engine may hold.  Each is a HashMap from a syllable    *)
(* sequence to its phrases in insertion order.                             *)

\* The shape of the repository's test dictionary: every syllable has a
\* one-character phrase, longer phrases have a higher frequency.
DictBasic ==
    (<<1>> :> <<Phrase(<<"A">>, 1)>>) @@
    (<<2>> :> <<Phrase(<<"B">>, 1)>>) @@
    (<<1, 2>> :> <<Phrase(<<"A", "B">>, 200), Phrase(<<"X", "Y">>, 100)>>) @@
    (<<2, 1>> :> <<Phrase(<<"B", "A">>, 300)>>) @@
    (<<1, 2, 1>> :> <<Phrase(<<"A", "C", "D">>, 200)>>)

\* Frequent single characters next to rare long phrases.
DictFreq ==
    (<<1>> :> <<Phrase(<<"A">>, 2048)>>) @@
    (<<2>> :> <<Phrase(<<"B">>, 600)>>) @@
    (<<1, 2>> :> <<Phrase(<<"A", "B">>, 3), Phrase(<<"X", "Y">>, 1)>>) @@
    (<<2, 1>> :> <<Phrase(<<"B", "A">>, 2000)>>)

\* A dictionary with no phrase for syllable 2 alone.
DictSparse ==
    (<<1>> :> <<Phrase(<<"A">>, 1)>>) @@
    (<<1, 2>> :> <<Phrase(<<"A", "B">>, 1)>>) @@
    (<<2, 1>> :> <<Phrase(<<"B", "A">>, 5)>>)

\* A dictionary whose phrases for syllable 1 have frequency 0.
DictZero ==
    (<<1>> :> <<Phrase(<<"A">>, 0)>>) @@
    (<<2>> :> <<Phrase(<<"B">>, 1600)>>) @@
    (<<1, 2>> :> <<Phrase(<<"A", "B">>, 1)>>)

\* A dictionary that holds a phrase under the empty syllable sequence.
DictEmptyKey ==
    (<< >> :> <<Phrase(<<"E">>, 1)>>) @@
    (<<1>> :> <<Phrase(<<"A">>, 1)>>) @@
    (<<2>> :> <<Phrase(<<"B">>, 1)>>)

Dicts == {DictBasic, DictFreq, DictSparse, DictZero}

\* impl Dictionary for HashMap: the phrases stored under the key, else none.
lookup_phrase(d, syls) == IF syls \in DOMAIN d THEN d[syls] ELSE << >>

----------------------------------------------------------------------------
(* Candidate selection shared by both engines.                             *)

\* "There exists a break point that forbids connecting these syllables."
BreakInside(start, end, brs) ==
    \E i \in 1..Len(brs) : brs[i] > start /\ brs[i] < end

\* What find_best_phrase leaves behind when it panics: the call unwinds
\* and returns nothing.
PhrasePanic == Some(Phrase(<< >>, -1))

\* The inner loop over the selections for one phrase, in order: "skip" at
\* the first selection inside [start, end) whose substring of the phrase
\* differs, "keep" when the loop ends.  The library is built with debug
\* assertions and overflow checks (the default profile): the Chewing engine
\* asserts that a selection's text is not empty (asserts), and
\* `selection.end - selection.start` panics when the end is before the start.
RECURSIVE selection_loop(_, _, _, _, _, _)
selection_loop(phrase, start, end, sels, j, asserts) ==
    IF j > Len(sels) THEN "keep"
    ELSE IF asserts /\ sels[j].phrase = << >> THEN "panic"
    ELSE IF start <= sels[j].start /\ end >= sels[j].end
         THEN IF sels[j].end < sels[j].start THEN "panic"
              ELSE IF SkipTake(phrase.phrase, sels[j].start - start,
                               sels[j].end - sels[j].start) # sels[j].phrase
                   THEN "skip"
                   ELSE selection_loop(phrase, start, end, sels, j + 1,
                                       asserts)
         ELSE selection_loop(phrase, start, end, sels, j + 1, asserts)

----------------------------------------------------------------------------
(* ExperimentalConversionEngine.                                           *)

\* The loop over the looked-up phrases: keeps the first phrase whose
\* frequency is strictly above every earlier kept one, starting from 0.
RECURSIVE exp_pick_phrase(_, _, _, _, _, _, _)
exp_pick_phrase(phrases, i, start, end, sels, max_freq, best_phrase) ==
    IF i > Len(phrases) THEN best_phrase
    ELSE LET verdict == selection_loop(phrases[i], start, end, sels, 1,
                                       FALSE)
         IN  IF verdict = "panic" THEN PhrasePanic
             ELSE IF verdict = "keep" /\ phrases[i].freq > max_freq
             THEN exp_pick_phrase(phrases, i + 1, start, end, sels,
                                  phrases[i].freq, Some(phrases[i]))
             ELSE exp_pick_phrase(phrases, i + 1, start, end, sels,
                                  max_freq, best_phrase)

\* find_best_phrase that looks up the first syllable of the range only.
find_best_phrase_first_syllable(d, offset, syls, sels, brs) ==
    exp_pick_phrase(lookup_phrase(d, IF syls = << >> THEN syls
                                     ELSE <<Head(syls)>>),
                    1, offset, offset + Len(syls), sels, 0, None)

\* find_best_phrase without the scan of the breaks.
find_best_phrase_no_breaks(d, offset, syls, sels, brs) ==
    exp_pick_phrase(lookup_phrase(d, syls), 1, offset, offset + Len(syls),
                    sels, 0, None)

find_best_phrase(d, offset, syls, sels, brs) ==
    LET start == offset
        end == offset + Len(syls)
    IN  IF BreakInside(start, end, brs) THEN None
        ELSE exp_pick_phrase(lookup_phrase(d, syls), 1, start, end, sels,
                             0, None)

\* Node::default()
DefaultNode == [best_source |-> 0, best_score |-> 0, best_phrase |-> None]

ReductionFactor(len) == IF len = 1 THEN 512 ELSE 1

\* calculate_score without the reduction factor of one-syllable phrases.
calculate_score_no_reduction(source_node, start, end, freq) ==
    source_node.best_score + (end - start) * Max(freq, 1)

calculate_score(source_node, start, end, freq) ==
    LET len == end - start
    IN  source_node.best_score + len * Max(freq \div ReductionFactor(len), 1)

\* A panic inside find_best_path unwinds its loops; the vector that is
\* dropped is marked in the node of the source.
Unwinding(dp, source) == dp[source].best_score < 0

\* One pass of the inner loop body of find_best_path for the edge (s, t).
relax_edge(d, seq, sels, brs, dp, s, t) ==
    LET entry == find_best_phrase(d, s, Slice(seq, s, t), sels, brs)
    IN  IF entry = None THEN dp
        ELSE IF entry = PhrasePanic
        THEN [dp EXCEPT ![0] = [@ EXCEPT !.best_score = -1]]
        ELSE LET score == calculate_score(dp[s], s, t, entry[1].freq)
             IN  IF dp[t].best_score < score
                 THEN [dp EXCEPT ![t] = [best_source |-> s,
                                         best_score |-> score,
                                         best_phrase |-> entry]]
                 ELSE dp

RECURSIVE dp_inner(_, _, _, _, _, _, _)
dp_inner(d, seq, sels, brs, dp, s, t) ==
    IF s >= t \/ Unwinding(dp, 0) THEN dp
    ELSE dp_inner(d, seq, sels, brs,
                  relax_edge(d, seq, sels, brs, dp, s, t), s + 1, t)

RECURSIVE dp_outer(_, _, _, _, _, _, _, _)
dp_outer(d, seq, sels, brs, dp, source, t, target) ==
    IF t > target \/ Unwinding(dp, 0) THEN dp
    ELSE dp_outer(d, seq, sels, brs,
                  dp_inner(d, seq, sels, brs, dp, source, t),
                  source, t + 1, target)

\* A call either returns intervals or panics / overflows its stack.
Ok(ivs) == [status |-> "ok", intervals |-> ivs]
Panic == [status |-> "panic", intervals |-> << >>]
StackOverflow == [status |-> "overflow", intervals |-> << >>]
NoResult == [status |-> "none", intervals |-> << >>]

\* Path::from_dp: walks the back pointers from `end` and pushes each
\* interval as it is met; `expect` panics on a node without a phrase.
RECURSIVE from_dp_loop(_, _, _, _)
from_dp_loop(dp, start, end, intervals) ==
    IF dp[end].best_phrase = None THEN Panic
    ELSE LET pushed == Append(intervals,
                  Interval(start, end, dp[end].best_phrase[1].phrase))
         IN  IF start = 0 THEN Ok(pushed)
             ELSE from_dp_loop(dp, dp[start].best_source, start, pushed)

from_dp(dp, end) == from_dp_loop(dp, dp[end].best_source, end, << >>)

find_best_path(d, seq, sels, brs, source, target) ==
    LET dp == dp_outer(d, seq, sels, brs,
                       [t \in 0..target |-> DefaultNode],
                       source, source, target)
    IN  IF Unwinding(dp, 0) THEN Panic ELSE from_dp(dp, target)

exp_convert(d, seq, sels, brs) ==
    IF seq = << >> THEN Ok(<< >>)
    ELSE find_best_path(d, seq, sels, brs, 0, Len(seq))

\* Path::default()
DefaultPath == [score |-> 0, intervals |-> << >>]

PathsOk(ps) == [status |-> "ok", paths |-> ps]
PathsAbort(st) == [status |-> st, paths |-> << >>]

\* find_all_paths: a depth-first enumeration.  `t` runs over source..=target;
\* every range with a phrase extends the prefix by one interval and recurses
\* at t.  `depth` counts the nested calls; the call aborts when the stack is
\* exhausted.  fap_loop is the for loop, with `acc` its `result` vector.
RECURSIVE find_all_paths(_, _, _, _, _, _, _, _)
RECURSIVE fap_loop(_, _, _, _, _, _, _, _, _, _)
fap_loop(d, seq, sels, brs, source, target, prefix, depth, t, acc) ==
    IF t > target THEN PathsOk(acc)
    ELSE LET entry == find_best_phrase(d, source, Slice(seq, source, t),
                                       sels, brs)
         IN  IF entry = None
             THEN fap_loop(d, seq, sels, brs, source, target, prefix, depth,
                           t + 1, acc)
             ELSE IF entry = PhrasePanic THEN PathsAbort("panic")
             ELSE LET base == IF prefix = None THEN DefaultPath ELSE prefix[1]
                      extended ==
                          [score |-> base.score + 1,
                           intervals |-> Append(base.intervals,
                               Interval(source, t, entry[1].phrase))]
                      sub == find_all_paths(d, seq, sels, brs, t, target,
                                            Some(extended), depth + 1)
                  IN  IF sub.status # "ok" THEN sub
                      ELSE fap_loop(d, seq, sels, brs, source, target, prefix,
                                    depth, t + 1, acc \o sub.paths)

find_all_paths(d, seq, sels, brs, source, target, prefix, depth) ==
    IF depth > MaxStackDepth THEN PathsAbort("overflow")
    ELSE IF source = target
         THEN IF prefix = None THEN PathsAbort("panic")
              ELSE PathsOk(<<prefix[1]>>)
         ELSE fap_loop(d, seq, sels, brs, source, target, prefix, depth,
                       source, << >>)

\* impl Ord for Path: paths compare by score alone.
path_cmp_le(a, b) == a.score <= b.score

\* paths.sort(): a stable sort under path_cmp_le.
RECURSIVE sort_insert(_, _)
sort_insert(sorted, p) ==
    IF sorted = << >> THEN <<p>>
    ELSE IF path_cmp_le(sorted[Len(sorted)], p) THEN Append(sorted, p)
         ELSE Append(sort_insert(SubSeq(sorted, 1, Len(sorted) - 1), p),
                     sorted[Len(sorted)])

RECURSIVE sort_paths_from(_, _, _)
sort_paths_from(paths, i, sorted) ==
    IF i > Len(paths) THEN sorted
    ELSE sort_paths_from(paths, i + 1, sort_insert(sorted, paths[i]))

sort_paths(paths) == sort_paths_from(paths, 1, << >>)

\* paths.into_iter().cycle().skip(next).next(): None on an empty vector.
\* skip(next).next() on the vector itself, without cycle().
skip_next_no_cycle(paths, next) ==
    IF next >= Len(paths) THEN None ELSE Some(paths[next + 1])

cycle_skip_next(paths, next) ==
    IF paths = << >> THEN None
    ELSE Some(paths[(next % Len(paths)) + 1])

exp_convert_next(d, seq, sels, brs, next) ==
    IF seq = << >> THEN Ok(<< >>)
    ELSE LET found == find_all_paths(d, seq, sels, brs, 0, Len(seq), None, 1)
         IN  IF found.status = "overflow" THEN StackOverflow
             ELSE IF found.status = "panic" THEN Panic
             ELSE LET picked == cycle_skip_next(sort_paths(found.paths), next)
                  IN  IF picked = None THEN Panic
                      ELSE Ok(picked[1].intervals)

----------------------------------------------------------------------------
(* ChewingConversionEngine.                                                *)

\* The loop over the looked-up phrases: the first allowed phrase is kept,
\* then replaced by any later one with a strictly higher frequency.
RECURSIVE chewing_pick_phrase(_, _, _, _, _, _, _)
chewing_pick_phrase(phrases, i, start, end, sels, max_freq, best_phrase) ==
    IF i > Len(phrases) THEN best_phrase
    ELSE LET verdict == selection_loop(phrases[i], start, end, sels, 1,
                                       TRUE)
         IN  IF verdict = "panic" THEN PhrasePanic
             ELSE IF verdict = "keep"
                     /\ (best_phrase = None \/ phrases[i].freq > max_freq)
             THEN chewing_pick_phrase(phrases, i + 1, start, end, sels,
                                      phrases[i].freq, Some(phrases[i]))
             ELSE chewing_pick_phrase(phrases, i + 1, start, end, sels,
                                      max_freq, best_phrase)

chewing_find_best_phrase(d, offset, syls, sels, brs) ==
    LET start == offset
        end == offset + Len(syls)
    IN  IF BreakInside(start, end, brs) THEN None
        ELSE chewing_pick_phrase(lookup_phrase(d, syls), 1, start, end, sels,
                                 0, None)

PossibleInterval(s, e, p) == [start |-> s, end |-> e, phrase |-> p]

\* What find_intervals leaves behind when find_best_phrase panics.
IntervalsPanic == <<PossibleInterval(-1, -1, PhrasePanic[1])>>

\* find_intervals: begin in 0..len, end in begin..=len, in loop order.
RECURSIVE find_intervals_from(_, _, _, _, _, _, _)
find_intervals_from(d, seq, sels, brs, begin, end, intervals) ==
    IF begin >= Len(seq) THEN intervals
    ELSE IF end > Len(seq)
         THEN find_intervals_from(d, seq, sels, brs, begin + 1, begin + 1,
                                  intervals)
         ELSE LET found == chewing_find_best_phrase(d, begin,
                               Slice(seq, begin, end), sels, brs)
              IN  IF found = PhrasePanic THEN IntervalsPanic
                  ELSE find_intervals_from(d, seq, sels, brs, begin, end + 1,
                           IF found = None THEN intervals
                           ELSE Append(intervals,
                                       PossibleInterval(begin, end, found[1])))

find_intervals(d, seq, sels, brs) ==
    find_intervals_from(d, seq, sels, brs, 0, 0, << >>)

\* intervals.sort_by(|a, b| a.end.cmp(&b.end)): stable, by end.
RECURSIVE sort_by_end_insert(_, _)
sort_by_end_insert(sorted, it) ==
    IF sorted = << >> THEN <<it>>
    ELSE IF sorted[Len(sorted)].end <= it.end THEN Append(sorted, it)
         ELSE Append(sort_by_end_insert(SubSeq(sorted, 1, Len(sorted) - 1), it),
                     sorted[Len(sorted)])

RECURSIVE sort_by_end_from(_, _, _)
sort_by_end_from(intervals, i, sorted) ==
    IF i > Len(intervals) THEN sorted
    ELSE sort_by_end_from(intervals, i + 1,
                          sort_by_end_insert(sorted, intervals[i]))

sort_by_end(intervals) == sort_by_end_from(intervals, 1, << >>)

Abs(x) == IF x < 0 THEN -x ELSE x

RECURSIVE largest_sum_from(_, _, _)
largest_sum_from(interval_index, intervals, k) ==
    IF k > Len(interval_index) THEN 0
    ELSE (intervals[interval_index[k]].end
          - intervals[interval_index[k]].start)
         + largest_sum_from(interval_index, intervals, k + 1)

rule_largest_sum(interval_index, intervals) ==
    largest_sum_from(interval_index, intervals, 1)

\* "Constant factor 6=1*2*3, to keep value as integer"
rule_largest_avgwordlen(interval_index, intervals) ==
    (6 * rule_largest_sum(interval_index, intervals)) \div Len(interval_index)

RECURSIVE lenvariance_pairs(_, _, _, _)
lenvariance_pairs(interval_index, intervals, i, j) ==
    IF i > Len(interval_index) THEN 0
    ELSE IF j > Len(interval_index)
         THEN lenvariance_pairs(interval_index, intervals, i + 1, i + 2)
         ELSE LET l1 == intervals[interval_index[i]].end
                        - intervals[interval_index[i]].start
                  l2 == intervals[interval_index[j]].end
                        - intervals[interval_index[j]].start
              IN  Abs(l1 - l2)
                  + lenvariance_pairs(interval_index, intervals, i, j + 1)

rule_smallest_lenvariance(interval_index, intervals) ==
    - lenvariance_pairs(interval_index, intervals, 1, 2)

RECURSIVE largest_freqsum_from(_, _, _)
largest_freqsum_from(interval_index, intervals, k) ==
    IF k > Len(interval_index) THEN 0
    ELSE LET interval == intervals[interval_index[k]]
         IN  (interval.phrase.freq
                  \div ReductionFactor(interval.end - interval.start))
             + largest_freqsum_from(interval_index, intervals, k + 1)

rule_largest_freqsum(interval_index, intervals) ==
    largest_freqsum_from(interval_index, intervals, 1)

\* RecordNode::default()
DefaultRecord == [interval_index |-> << >>, score |-> 0]

record_score(interval_index, intervals) ==
    1000 * rule_largest_sum(interval_index, intervals)
    + 1000 * rule_largest_avgwordlen(interval_index, intervals)
    + 100 * rule_smallest_lenvariance(interval_index, intervals)
    + rule_largest_freqsum(interval_index, intervals)

\* The loop of dp_phrasing over the intervals sorted by end.
RECURSIVE dp_phrasing_loop(_, _, _)
dp_phrasing_loop(intervals, i, highest_score) ==
    IF i > Len(intervals) THEN highest_score
    ELSE LET index == Append(highest_score[intervals[i].start].interval_index,
                             i)
             record == [interval_index |-> index,
                        score |-> record_score(index, intervals)]
         IN  dp_phrasing_loop(intervals, i + 1,
                 IF highest_score[intervals[i].end].score < record.score
                 THEN [highest_score EXCEPT ![intervals[i].end] = record]
                 ELSE highest_score)

dp_phrasing(len, unsorted) ==
    LET intervals == sort_by_end(unsorted)
        highest_score ==
            dp_phrasing_loop(intervals, 1, [t \in 0..len |-> DefaultRecord])
        chosen == highest_score[len].interval_index
    IN  [k \in 1..Len(chosen) |->
            Interval(intervals[chosen[k]].start, intervals[chosen[k]].end,
                     intervals[chosen[k]].phrase.phrase)]

\* convert_next does not read `next`.
chewing_convert_next(d, seq, sels, brs, next) ==
    LET intervals == find_intervals(d, seq, sels, brs)
    IN  IF intervals = IntervalsPanic THEN Panic
        ELSE Ok(dp_phrasing(Len(seq), intervals))

chewing_convert(d, seq, sels, brs) == chewing_convert_next(d, seq, sels, brs, 0)

----------------------------------------------------------------------------
(* The session around the converter.                                       *)

Engines == {"Experimental", "Chewing"}

NoCall == [engine |-> "none", op |-> "none", next |-> 0]

\* ConversionEngine::convert / convert_next, dispatched on the engine.
convert(engine, d, seq, sels, brs) ==
    IF engine = "Experimental" THEN exp_convert(d, seq, sels, brs)
    ELSE chewing_convert(d, seq, sels, brs)

convert_next(engine, d, seq, sels, brs, next) ==
    IF engine = "Experimental" THEN exp_convert_next(d, seq, sels, brs, next)
    ELSE chewing_convert_next(d, seq, sels, brs, next)

\* The phrases stored for the range [i, j) of the sequence.
PhrasesAt(d, seq, i, j) ==
    LET found == lookup_phrase(d, Slice(seq, i, j))
    IN  {found[k] : k \in 1..Len(found)}

\* The selections handed to ConversionEngineDoPhrasing: the ranges and the
\* texts are taken as they are given.  A text of the dictionary, a text the
\* dictionary does not have there, an empty range with an empty text, and a
\* range that overlaps the first and may end after the sequence.
UserSelections ==
    { Interval(0, 2, <<"X", "Y">>),
      Interval(0, 1, <<"B">>),
      Interval(0, 0, << >>),
      Interval(1, 3, <<"B", "A">>) }

\* The dictionary stack is not exercised by the converter session.
DictIdle ==
    /\ layers = << >>
    /\ blocked = << >>
    /\ db = << >>
    /\ handle = "closed"
    /\ last = << >>
    /\ pre = << >>
    /\ nops = 0

\* No Syllable operation has been made.
NoSylOp ==
    [op |-> "none", arg |-> << >>, before |-> 0,
     result |-> [status |-> "none", value |-> << >>]]

\* The Syllable and the syllable editor are not exercised by the converter
\* session nor by the dictionary session.
ZhuyinIdle ==
    /\ syl = 0
    /\ slast = NoSylOp

\* No key has been pressed; `before` is what the editor held before the
\* call: whether it was empty, its initial and its medial.
NoKey ==
    [key |-> "none", behavior |-> "none",
     typed |-> << >>,
     before |-> [empty |-> TRUE, initial |-> << >>, medial |-> << >>,
                 rime |-> << >>]]

EditorIdle ==
    /\ editor = << >>
    /\ elast = NoKey

Init ==
    /\ dict \in Dicts
    /\ syllables = << >>
    /\ selections = << >>
    /\ breaks = << >>
    /\ call = NoCall
    /\ result = NoResult
    /\ DictIdle
    /\ ZhuyinIdle
    /\ EditorIdle

\* A committed syllable is appended to the sequence.
AppendSyllable(s) ==
    /\ call = NoCall
    /\ Len(syllables) < MaxLen
    /\ syllables' = Append(syllables, s)
    /\ UNCHANGED <<dict, selections, breaks, call, result, dvars, zvars, evars>>

\* The indexes of the break array that may carry a mark: the first one,
\* those between two syllables, and for a shorter sequence its end and
\* beyond.
BreakMarks == 0..(MaxLen - 1)

\* A mark of the break array: Break(k) is pushed for every index k whose
\* mark is 1, in index order, whatever the syllables and the selections.
AddBreak(k) ==
    /\ call = NoCall
    /\ Len(breaks) < MaxBreaks
    /\ \A i \in 1..Len(breaks) : breaks[i] < k
    /\ breaks' = Append(breaks, k)
    /\ UNCHANGED <<dict, syllables, selections, call, result, dvars, zvars, evars>>

\* A selection of the selection arrays: the Interval is pushed as given.
AddSelection(s, e, text) ==
    /\ call = NoCall
    /\ Len(selections) < MaxSelections
    /\ selections' = Append(selections, Interval(s, e, text))
    /\ UNCHANGED <<dict, syllables, breaks, call, result, dvars, zvars, evars>>

Convert(engine) ==
    /\ call = NoCall
    /\ call' = [engine |-> engine, op |-> "convert", next |-> 0]
    /\ result' = convert(engine, dict, syllables, selections, breaks)
    /\ UNCHANGED <<dict, syllables, selections, breaks, dvars, zvars, evars>>

ConvertNext(engine, next) ==
    /\ call = NoCall
    /\ call' = [engine |-> engine, op |-> "convert_next", next |-> next]
    /\ result' = convert_next(engine, dict, syllables, selections, breaks,
                              next)
    /\ UNCHANGED <<dict, syllables, selections, breaks, dvars, zvars, evars>>

\* The session renders the returned intervals and goes on editing.  Only a
\* call that returned is rendered: a panic or a stack overflow ends the
\* process, and nothing follows it.
Render ==
    /\ call # NoCall
    /\ result.status = "ok"
    /\ call' = NoCall
    /\ result' = NoResult
    /\ UNCHANGED <<dict, syllables, selections, breaks, dvars, zvars, evars>>

Next ==
    \/ \E s \in Syllables : AppendSyllable(s)
    \/ \E k \in BreakMarks : AddBreak(k)
    \/ \E sel \in UserSelections :
           AddSelection(sel.start, sel.end, sel.phrase)
    \/ \E engine \in Engines : Convert(engine)
    \/ \E engine \in Engines, next \in 0..MaxNext : ConvertNext(engine, next)
    \/ Render

Spec == Init /\ [][Next]_vars

\* The same session over the dictionary that stores a phrase under the
\* empty syllable sequence.
InitEmptyKey ==
    /\ dict = DictEmptyKey
    /\ syllables = << >>
    /\ selections = << >>
    /\ breaks = << >>
    /\ call = NoCall
    /\ result = NoResult
    /\ DictIdle
    /\ ZhuyinIdle
    /\ EditorIdle

SpecEmptyKey == InitEmptyKey /\ [][Next]_vars

----------------------------------------------------------------------------
(* Vocabulary of the properties: the complete covers of the current        *)
(* sequence, stated without the engines' search procedures.                *)

N == Len(syllables)

Called == call # NoCall
Returned == Called /\ result.status = "ok"

\* The candidate an engine has for the range [s, e) of the current sequence.
\* A range on which find_best_phrase panics has none.
Candidate(engine, s, e) ==
    LET found ==
            IF engine = "Experimental"
            THEN find_best_phrase(dict, s, Slice(syllables, s, e),
                                  selections, breaks)
            ELSE chewing_find_best_phrase(dict, s, Slice(syllables, s, e),
                                          selections, breaks)
    IN  IF found = PhrasePanic THEN None ELSE found

RECURSIVE SortedSeq(_)
SortedSeq(S) ==
    IF S = {} THEN << >>
    ELSE LET m == CHOOSE x \in S : \A y \in S : x <= y
         IN  <<m>> \o SortedSeq(S \ {m})

\* The boundaries 0 < c1 < ... < n of a segmentation with inner cuts C.
CutPoints(C) == <<0>> \o SortedSeq(C) \o <<N>>

HasCandidates(engine, C) ==
    LET pts == CutPoints(C)
    IN  \A i \in 1..(Len(pts) - 1) : Candidate(engine, pts[i], pts[i + 1]) # None

CoverOf(engine, C) ==
    LET pts == CutPoints(C)
    IN  [i \in 1..(Len(pts) - 1) |->
            Interval(pts[i], pts[i + 1],
                     Candidate(engine, pts[i], pts[i + 1])[1].phrase)]

\* Every complete cover of [0, N) built from the per-range candidates.
CompleteCovers(engine) ==
    IF N = 0 THEN {}
    ELSE {CoverOf(engine, C) :
              C \in {D \in SUBSET (1..(N - 1)) : HasCandidates(engine, D)}}

\* length x max(1, freq / r(length)), r(1) = 512, r(len > 1) = 1.
IntervalScore(engine, iv) ==
    LET len == iv.end - iv.start
        freq == Candidate(engine, iv.start, iv.end)[1].freq
        r == IF len = 1 THEN 512 ELSE 1
    IN  len * (IF freq \div r > 1 THEN freq \div r ELSE 1)

RECURSIVE TotalScoreFrom(_, _, _)
TotalScoreFrom(engine, ivs, i) ==
    IF i > Len(ivs) THEN 0
    ELSE IntervalScore(engine, ivs[i]) + TotalScoreFrom(engine, ivs, i + 1)

TotalScore(engine, ivs) == TotalScoreFrom(engine, ivs, 1)

IntervalSet(ivs) == {ivs[i] : i \in 1..Len(ivs)}

\* a comes before b in the lexicographic order of interval sequences.
LexBefore(a, b) ==
    \E i \in 1..Min(Len(a), Len(b)) :
        /\ \A j \in 1..(i - 1) : a[j] = b[j]
        /\ a[i].end < b[i].end

\* a comes before b when covers are ordered by total score descending,
\* ties broken lexicographically.
RankedBefore(engine, a, b) ==
    \/ TotalScore(engine, a) > TotalScore(engine, b)
    \/ TotalScore(engine, a) = TotalScore(engine, b) /\ LexBefore(a, b)

Rank(engine, c) ==
    Cardinality({a \in CompleteCovers(engine) : RankedBefore(engine, a, c)})

\* The intervals are pairwise non-overlapping, gap-free and cover [0, n).
ExactCover(ivs, n) ==
    /\ \A i \in 1..Len(ivs) :
           0 <= ivs[i].start /\ ivs[i].start <= ivs[i].end /\ ivs[i].end <= n
    /\ \A pos \in 0..(n - 1) :
           Cardinality({i \in 1..Len(ivs) :
                           ivs[i].start <= pos /\ pos < ivs[i].end}) = 1

----------------------------------------------------------------------------
(* Properties of the converter.                                            *)

\* C1: for a non-empty sequence the intervals returned by either engine are
\* pairwise non-overlapping, leave no gap and cover exactly [0, n).
C1_ConvertCoversSequence ==
    (Returned /\ N > 0) => ExactCover(result.intervals, N)

\* C2: the list returned by convert is in strictly increasing start order.
C2_ConvertStartsIncrease ==
    (Returned /\ call.op = "convert") =>
        \A i \in 1..(Len(result.intervals) - 1) :
            result.intervals[i].start < result.intervals[i + 1].start

\* C3: no interval returned by convert or convert_next has a break strictly
\* inside it.
C3_BreaksRespected ==
    Returned =>
        \A i \in 1..Len(result.intervals), k \in 1..Len(breaks) :
            ~(result.intervals[i].start < breaks[k]
              /\ breaks[k] < result.intervals[i].end)

\* C3 witness: a call returned for a sequence with a break that the engine
\* would have spanned had the break not been there.
C3_Witness ==
    /\ Returned
    /\ call.op = "convert"
    /\ breaks # << >>
    /\ LET free == convert(call.engine, dict, syllables, selections, << >>)
       IN  /\ free.status = "ok"
           /\ \E i \in 1..Len(free.intervals), k \in 1..Len(breaks) :
                  /\ free.intervals[i].start < breaks[k]
                  /\ breaks[k] < free.intervals[i].end

\* C4: for every selection the returned cover has an interval that spans
\* the selection and shows the selection's text at its positions.
C4_SelectionsRespected ==
    Returned =>
        \A k \in 1..Len(selections) :
            \E i \in 1..Len(result.intervals) :
                /\ result.intervals[i].start <= selections[k].start
                /\ result.intervals[i].end >= selections[k].end
                /\ SkipTake(result.intervals[i].phrase,
                            selections[k].start - result.intervals[i].start,
                            selections[k].end - selections[k].start)
                       = selections[k].phrase

\* C5: convert and convert_next always return an interval list; they never
\* panic or abort.
C5_ConverterNeverFails == Called => result.status = "ok"

\* C6: convert_next(S, 0) returns the same interval list as convert(S).
C6_NextZeroIsConvert ==
    (Returned /\ call.op = "convert") =>
        result.intervals
            = convert_next(call.engine, dict, syllables, selections,
                           breaks, 0).intervals

\* C7: with K complete covers, convert_next(S, k) equals
\* convert_next(S, k mod K).
C7_NextCycles ==
    (Called /\ call.op = "convert_next") =>
        LET K == Cardinality(CompleteCovers(call.engine))
        IN  K > 0 =>
                result = convert_next(call.engine, dict, syllables,
                                      selections, breaks, call.next % K)

\* C7 witness: convert_next returned for a next that is at least K, on a
\* sequence with more than one complete cover.
C7_Witness ==
    /\ Returned
    /\ call.op = "convert_next"
    /\ call.engine = "Experimental"
    /\ Cardinality(CompleteCovers(call.engine)) > 1
    /\ call.next >= Cardinality(CompleteCovers(call.engine))

\* C8: convert_next returns the (next mod K)-th complete cover when the
\* covers are ordered by total score descending, ties lexicographic.  Stated
\* for the experimental engine, whose find_all_paths the claim describes.
C8_NextOrderedByScore ==
    (Returned /\ call.op = "convert_next" /\ call.engine = "Experimental"
        /\ Cardinality(CompleteCovers(call.engine)) > 0) =>
        /\ result.intervals \in CompleteCovers(call.engine)
        /\ Rank(call.engine, result.intervals)
               = call.next % Cardinality(CompleteCovers(call.engine))

\* C9: the cover returned by the experimental engine's convert has the
\* maximum total score among all complete covers built from the per-range
\* candidates.
C9_ConvertMaximisesScore ==
    (Returned /\ call.op = "convert" /\ call.engine = "Experimental" /\ N > 0)
        =>
        /\ \E c \in CompleteCovers(call.engine) :
               IntervalSet(c) = IntervalSet(result.intervals)
        /\ \A c \in CompleteCovers(call.engine) :
               TotalScore(call.engine, c)
                   <= TotalScore(call.engine, result.intervals)

\* C9 witness: convert returned while some complete cover scores strictly
\* less than another one.
C9_Witness ==
    /\ Returned
    /\ call.op = "convert"
    /\ call.engine = "Experimental"
    /\ \E a, b \in CompleteCovers(call.engine) :
           TotalScore(call.engine, a) < TotalScore(call.engine, b)

\* C10: with the Chewing engine, successive values of next step through the
\* different complete covers: a next that is not a multiple of K returns a
\* cover other than the one returned for next = 0.
C10_ChewingNextSteps ==
    (Returned /\ call.op = "convert_next" /\ call.engine = "Chewing"
        /\ Cardinality(CompleteCovers(call.engine)) > 1
        /\ call.next % Cardinality(CompleteCovers(call.engine)) # 0) =>
        result.intervals # chewing_convert_next(dict, syllables, selections,
                                                breaks, 0).intervals


----------------------------------------------------------------------------
(* Dictionaries (src/src/dictionary.rs, src/src/dictionary).               *)
(*                                                                         *)
(* A dictionary maps a syllable sequence to an ordered list of phrases.    *)
(* The HashMap dictionary lives in memory, the SqliteDictionary in a file; *)
(* a LayeredDictionary stacks dictionaries and block lists.                *)

MaxOps == 2          \* dictionary operations in one run

DKeys == {<<1>>, <<1, 2>>}         \* the syllable sequences looked up
DTexts == <<"A", "B">>             \* phrase texts, in string order
DFreqs == {1, 2}

TextSet == {DTexts[i] : i \in 1..Len(DTexts)}

\* The place of a text in string order (how SQL compares TEXT values).
TextRank(t) == CHOOSE i \in 1..Len(DTexts) : DTexts[i] = t

Texts(phrases) == {phrases[i].phrase : i \in 1..Len(phrases)}

IndexOf(phrases, t) ==
    CHOOSE i \in 1..Len(phrases) : phrases[i].phrase = t

CountOf(phrases, t) ==
    Cardinality({i \in 1..Len(phrases) : phrases[i].phrase = t})

Done(st, x) == [status |-> st, value |-> x]

(* ---- HashMap<Vec<Syllable>, Vec<Phrase>> ------------------------------ *)

\* insert that reports success and keeps nothing.
hashmap_insert_lost(map, syls, phrase) == Done("ok", map)

\* insert without the duplicate test.
hashmap_insert_no_check(map, syls, phrase) ==
    Done("ok", IF syls \in DOMAIN map
               THEN [map EXCEPT ![syls] = Append(@, phrase)]
               ELSE map @@ (syls :> <<phrase>>))

hashmap_insert(map, syls, phrase) ==
    LET vec == IF syls \in DOMAIN map THEN map[syls] ELSE << >>
    IN  IF \E i \in 1..Len(vec) : vec[i].phrase = phrase.phrase
        THEN Done("DuplicatePhrase", map)
        ELSE Done("ok", IF syls \in DOMAIN map
                        THEN [map EXCEPT ![syls] = Append(vec, phrase)]
                        ELSE map @@ (syls :> <<phrase>>))

hashmap_update(map, syls, phrase, user_freq) == Done("ok", map)

\* remove(syllables, text): the phrase with that text leaves the list.
hashmap_remove(map, syls, text) ==
    Done("ok", IF syls \in DOMAIN map
               THEN [map EXCEPT
                        ![syls] = SelectSeq(@, LAMBDA ph : ph.phrase # text)]
               ELSE map)

(* ---- SqliteDictionary ------------------------------------------------- *)

MigrationName == "migrate_from_userphrase_v1"

RequiredTables == {"dictionary_v1", "userphrase_v2", "migration_v1", "info_v1"}

\* A row of dictionary_v1; sort_id and userphrase_id are nullable.
Row(syls, text, freq, sort_id, userphrase_id) ==
    [syllables |-> syls, phrase |-> text, freq |-> freq,
     sort_id |-> sort_id, userphrase_id |-> userphrase_id]

\* A row of the old userphrase_v1 table; a phone column that is not used
\* holds 0.
OldRow(phones, text, orig_freq, user_freq, time) ==
    [phones |-> phones, phrase |-> text, orig_freq |-> orig_freq,
     user_freq |-> user_freq, time |-> time]

\* A file that does not exist yet.
NoFile ==
    [exists |-> FALSE, tables |-> {}, dictionary_v1 |-> {},
     userphrase_v2 |-> << >>, migration_v1 |-> {}, userphrase_v1 |-> << >>]

\* A file written by libchewing before the split layout.
OldFile ==
    [exists |-> TRUE, tables |-> {"userphrase_v1"}, dictionary_v1 |-> {},
     userphrase_v2 |-> << >>, migration_v1 |-> {},
     userphrase_v1 |-> << OldRow(<<1, 2, 0>>, "A", 2, 1, 7),
                          OldRow(<<1, 2, 0>>, "B", 2, 2, 7),
                          OldRow(<<1, 0, 0>>, "B", 1, 1, 7) >>]

\* A file materialised by SqliteDictionaryBuilder (insert, then build).
BuiltFile ==
    [exists |-> TRUE, tables |-> RequiredTables,
     dictionary_v1 |-> { Row(<<1>>, "A", 1, Some(1), None),
                         Row(<<1>>, "B", 2, Some(2), None),
                         Row(<<1, 2>>, "A", 1, Some(0), None) },
     userphrase_v2 |-> << >>, migration_v1 |-> {}, userphrase_v1 |-> << >>]

Files == {NoFile, OldFile, BuiltFile}

\* ORDER BY sort_id ASC, freq DESC, phrase DESC; SQL orders NULL first.
row_before(a, b) ==
    IF a.sort_id # b.sort_id
    THEN IF a.sort_id = None THEN TRUE
         ELSE IF b.sort_id = None THEN FALSE
         ELSE a.sort_id[1] < b.sort_id[1]
    ELSE IF a.freq # b.freq THEN a.freq > b.freq
    ELSE TextRank(a.phrase) > TextRank(b.phrase)

RECURSIVE order_rows(_)
order_rows(rows) ==
    IF rows = {} THEN << >>
    ELSE LET first == CHOOSE r \in rows :
                          \A o \in rows \ {r} : row_before(r, o)
         IN  <<Phrase(first.phrase, first.freq)>>
                 \o order_rows(rows \ {first})

sqlite_lookup_phrase(file, syls) ==
    order_rows({r \in file.dictionary_v1 : r.syllables = syls})

\* INSERT OR REPLACE on the primary key (syllables, phrase).
upsert(rows, row) ==
    {r \in rows : ~(r.syllables = row.syllables /\ r.phrase = row.phrase)}
        \cup {row}

\* insert whose statement runs and whose failure comes afterwards.
sqlite_insert_then_fail(file, syls, phrase) ==
    Done("SqlError",
         [file EXCEPT !.dictionary_v1 =
              upsert(@, Row(syls, phrase.phrase, phrase.freq, None, None))])

\* The statement of insert does not parse (a comma ends its column list),
\* so prepare_cached fails and nothing is executed.
sqlite_insert(file, syls, phrase) == Done("SqlError", file)

\* update: UPSERT of the row (syllables, text).
sqlite_update(file, syls, phrase, user_freq) ==
    Done("ok",
         [file EXCEPT !.dictionary_v1 =
              upsert(@, Row(syls, phrase.phrase, user_freq, None, None))])

\* remove: DELETE of the row (syllables, text).
sqlite_remove(file, syls, text) ==
    Done("ok",
         [file EXCEPT !.dictionary_v1 =
              {r \in @ : ~(r.syllables = syls /\ r.phrase = text)}])

\* Connection::open creates the file; CREATE TABLE IF NOT EXISTS, four times.
initialize_tables(file) ==
    [file EXCEPT !.exists = TRUE, !.tables = @ \cup RequiredTables]

ensure_tables(file) ==
    IF RequiredTables \subseteq file.tables THEN "ok" ELSE "MissingTable"

\* A migration that copies no row.
migrate_rows_skipped(file, i) == file

\* The rows of userphrase_v1 copied inside one transaction; the syllables of
\* a row are its phones that are not 0.
RECURSIVE migrate_rows(_, _)
migrate_rows(file, i) ==
    IF i > Len(file.userphrase_v1) THEN file
    ELSE LET item == file.userphrase_v1[i]
             syls == SelectSeq(item.phones, LAMBDA phone : phone # 0)
             v2 == Append(file.userphrase_v2,
                          [user_freq |-> item.user_freq, time |-> item.time])
             row_id == Len(v2)
         IN  migrate_rows(
                 [file EXCEPT
                     !.userphrase_v2 = v2,
                     !.dictionary_v1 =
                         upsert(@, Row(syls, item.phrase,
                                       item.orig_freq, None, Some(row_id)))],
                 i + 1)

migrate_from_userphrase_v1(file) ==
    LET has_userphrase_v1 == "userphrase_v1" \in file.tables
        migrated == MigrationName \in file.migration_v1
    IN  IF ~has_userphrase_v1 \/ migrated
        THEN \* a plain INSERT: the primary key rejects a second row
             IF MigrationName \in file.migration_v1
             THEN Done("SqlError", file)
             ELSE Done("ok", [file EXCEPT !.migration_v1 =
                                              @ \cup {MigrationName}])
        ELSE Done("ok", [migrate_rows(file, 1) EXCEPT
                             !.migration_v1 = @ \cup {MigrationName}])

\* SqliteDictionary::open: the handle it returns, and the file afterwards.
open(file) ==
    LET created == initialize_tables(file)
        m == migrate_from_userphrase_v1(created)
    IN  IF m.status # "ok" THEN Done(m.status, m.value)
        ELSE Done(ensure_tables(m.value), m.value)

\* open that creates the tables like the read-write open.
open_read_only_creating(file) ==
    Done(ensure_tables(initialize_tables(file)), initialize_tables(file))

\* SqliteDictionary::open_read_only: no file is created, nothing is written.
open_read_only(file) ==
    IF ~file.exists THEN Done("SqlError", file)
    ELSE Done(ensure_tables(file), file)


(* ---- LayeredDictionary ------------------------------------------------ *)

HashMapLayer(map) == [kind |-> "HashMap", map |-> map]
SqliteLayer == [kind |-> "Sqlite"]    \* the SqliteDictionary on the file

\* lookup_phrase of one layer, through the Dictionary trait.
layer_lookup_phrase(layer, file, syls) ==
    IF layer.kind = "HashMap" THEN lookup_phrase(layer.map, syls)
    ELSE sqlite_lookup_phrase(file, syls)

\* as_mut_dict: a read-only SqliteDictionary gives no DictionaryMut.
as_mut_dict(layer, h) ==
    IF layer.kind = "HashMap" THEN TRUE ELSE h # "ro"

is_blocked(bl, text) == \E i \in 1..Len(bl) : text \in bl[i]

\* One phrase of an upper layer merged by removing the entry and appending.
merge_phrase_append(phrases, phrase) ==
    Append(SelectSeq(phrases, LAMBDA ph : ph.phrase # phrase.phrase), phrase)

\* One phrase of an upper layer: replace the entry of the same text in
\* place, or push.
merge_phrase(phrases, phrase) ==
    IF \E i \in 1..Len(phrases) : phrases[i].phrase = phrase.phrase
    THEN LET k == CHOOSE i \in 1..Len(phrases) :
                      /\ phrases[i].phrase = phrase.phrase
                      /\ \A j \in 1..(i - 1) :
                             phrases[j].phrase # phrase.phrase
         IN  [phrases EXCEPT ![k] = phrase]
    ELSE Append(phrases, phrase)

RECURSIVE merge_layer(_, _, _)
merge_layer(phrases, upper, k) ==
    IF k > Len(upper) THEN phrases
    ELSE merge_layer(merge_phrase(phrases, upper[k]), upper, k + 1)

RECURSIVE merge_layers(_, _, _, _, _)
merge_layers(ls, file, syls, i, phrases) ==
    IF i > Len(ls) THEN phrases
    ELSE merge_layers(ls, file, syls, i + 1,
             merge_layer(phrases, layer_lookup_phrase(ls[i], file, syls), 1))

\* The merged list without the block-list filter.
layered_lookup_phrase_unfiltered(ls, file, bl, syls) ==
    IF ls = << >> THEN << >>
    ELSE merge_layers(ls, file, syls, 2,
                      layer_lookup_phrase(ls[1], file, syls))

layered_lookup_phrase(ls, file, bl, syls) ==
    IF ls = << >> THEN << >>
    ELSE SelectSeq(merge_layers(ls, file, syls, 2,
                                layer_lookup_phrase(ls[1], file, syls)),
                   LAMBDA ph : ~is_blocked(bl, ph.phrase))

\* A mutation request: insert, update or remove with its arguments.
Mutation(op, syls, text, freq) ==
    [op |-> op, syllables |-> syls, text |-> text, freq |-> freq]

Outcome(st, ls, file) == [status |-> st, layers |-> ls, file |-> file]

\* The DictionaryMut method of one layer, applied to layer i of the stack.
layer_mutate(m, ls, file, i) ==
    LET phrase == Phrase(m.text, m.freq)
    IN  IF ls[i].kind = "HashMap"
        THEN LET r == CASE m.op = "insert" ->
                              hashmap_insert(ls[i].map, m.syllables, phrase)
                        [] m.op = "update" ->
                              hashmap_update(ls[i].map, m.syllables, phrase,
                                             m.freq)
                        [] OTHER ->
                              hashmap_remove(ls[i].map, m.syllables, m.text)
             IN  Outcome(r.status,
                         [ls EXCEPT ![i] = HashMapLayer(r.value)], file)
        ELSE LET r == CASE m.op = "insert" ->
                              sqlite_insert(file, m.syllables, phrase)
                        [] m.op = "update" ->
                              sqlite_update(file, m.syllables, phrase, m.freq)
                        [] OTHER ->
                              sqlite_remove(file, m.syllables, m.text)
             IN  Outcome(r.status, ls, r.value)

\* The loop that stops after the first layer that supports mutation.
RECURSIVE layered_mutate_first_only(_, _, _, _, _)
layered_mutate_first_only(m, ls, file, h, i) ==
    IF i > Len(ls) THEN Outcome("ok", ls, file)
    ELSE IF ~as_mut_dict(ls[i], h)
         THEN layered_mutate_first_only(m, ls, file, h, i + 1)
         ELSE layer_mutate(m, ls, file, i)

\* The loop that mutates the topmost layer that supports mutation only.
RECURSIVE layered_mutate_top_only(_, _, _, _, _)
layered_mutate_top_only(m, ls, file, h, i) ==
    IF i > Len(ls) THEN Outcome("ok", ls, file)
    ELSE IF as_mut_dict(ls[i], h)
            /\ \A k \in (i + 1)..Len(ls) : ~as_mut_dict(ls[k], h)
         THEN layer_mutate(m, ls, file, i)
         ELSE layered_mutate_top_only(m, ls, file, h, i + 1)

\* The loop that goes on after a layer has failed.
RECURSIVE layered_mutate_no_abort(_, _, _, _, _)
layered_mutate_no_abort(m, ls, file, h, i) ==
    IF i > Len(ls) THEN Outcome("ok", ls, file)
    ELSE IF ~as_mut_dict(ls[i], h)
         THEN layered_mutate_no_abort(m, ls, file, h, i + 1)
         ELSE LET r == layer_mutate(m, ls, file, i)
                  rest == layered_mutate_no_abort(m, r.layers, r.file, h,
                                                  i + 1)
              IN  IF r.status # "ok"
                  THEN Outcome(r.status, rest.layers, rest.file)
                  ELSE rest

\* for dict in &mut self.inner { if let Some(dict_mut) = dict.as_mut_dict()
\* { dict_mut.<op>(..)?; } } Ok(())
RECURSIVE layered_mutate(_, _, _, _, _)
layered_mutate(m, ls, file, h, i) ==
    IF i > Len(ls) THEN Outcome("ok", ls, file)
    ELSE IF ~as_mut_dict(ls[i], h)
         THEN layered_mutate(m, ls, file, h, i + 1)
         ELSE LET r == layer_mutate(m, ls, file, i)
              IN  IF r.status # "ok" THEN r
                  ELSE layered_mutate(m, r.layers, r.file, h, i + 1)

\* A mutation of the layered dictionary (target 0) or of layer `target`.
mutate(target, m, ls, file, h) ==
    IF target = 0 THEN layered_mutate(m, ls, file, h, 1)
    ELSE layer_mutate(m, ls, file, target)

\* lookup_phrase of the layered dictionary (target 0) or of layer `target`.
dictionary_lookup(target, ls, file, bl, syls) ==
    IF target = 0 THEN layered_lookup_phrase(ls, file, bl, syls)
    ELSE layer_lookup_phrase(ls[target], file, syls)


(* ---- A session over the dictionaries ---------------------------------- *)

\* The system phrases and the user's phrases of the doc example's shape.
SysMap == (<<1>> :> <<Phrase("A", 1), Phrase("B", 1)>>)
UserMap == (<<1>> :> <<Phrase("A", 2)>>) @@ (<<1, 2>> :> <<Phrase("A", 2)>>)

Stacks ==
    { <<HashMapLayer(SysMap), HashMapLayer(UserMap)>>,
      <<SqliteLayer, HashMapLayer(UserMap)>>,
      <<HashMapLayer(SysMap), SqliteLayer>>,
      <<SqliteLayer>> }

BlockLists == { << >>, <<{"A"}>>, <<{}, {"B"}>> }

NoOp == [op |-> "none", target |-> 0, syllables |-> << >>, text |-> "",
         freq |-> 0, status |-> "none"]

Snapshot(ls, file) == [layers |-> ls, db |-> file]

\* The converter session is not exercised by the dictionary session.
ConvIdle ==
    /\ dict = DictBasic
    /\ syllables = << >>
    /\ selections = << >>
    /\ breaks = << >>
    /\ call = NoCall
    /\ result = NoResult

HasSqlite(ls) == \E i \in 1..Len(ls) : ls[i].kind = "Sqlite"

\* Every dictionary of the stack has been opened.
StackReady == HasSqlite(layers) => handle # "closed"

DictInit ==
    /\ ConvIdle
    /\ ZhuyinIdle
    /\ EditorIdle
    /\ layers \in Stacks
    /\ blocked \in BlockLists
    /\ db \in Files
    /\ handle = "closed"
    /\ last = NoOp
    /\ pre = Snapshot(layers, db)
    /\ nops = 0

OpFrame(op, target, syls, text, freq, st) ==
    /\ last' = [op |-> op, target |-> target, syllables |-> syls,
                text |-> text, freq |-> freq, status |-> st]
    /\ pre' = Snapshot(layers, db)
    /\ nops' = nops + 1
    /\ UNCHANGED <<blocked, cvars, zvars, evars>>

\* SqliteDictionary::open on the user dictionary file.
Open ==
    /\ nops < MaxOps
    /\ handle = "closed"
    /\ LET r == open(db)
       IN  /\ db' = r.value
           /\ handle' = IF r.status = "ok" THEN "rw" ELSE "closed"
           /\ OpFrame("open", 0, << >>, "", 0, r.status)
    /\ UNCHANGED layers

\* SqliteDictionary::open_read_only on the user dictionary file.
OpenReadOnly ==
    /\ nops < MaxOps
    /\ handle = "closed"
    /\ LET r == open_read_only(db)
       IN  /\ db' = r.value
           /\ handle' = IF r.status = "ok" THEN "ro" ELSE "closed"
           /\ OpFrame("open_read_only", 0, << >>, "", 0, r.status)
    /\ UNCHANGED layers

\* The SqliteDictionary is dropped; the file stays.
Close ==
    /\ handle # "closed"
    /\ handle' = "closed"
    /\ last' = NoOp
    /\ pre' = Snapshot(layers, db)
    /\ UNCHANGED <<layers, blocked, db, nops, cvars, zvars, evars>>

\* insert, update or remove on the layered dictionary or on one of its
\* dictionaries taken alone (through as_mut_dict).
Mutate(target, m) ==
    /\ StackReady
    /\ target \in 0..Len(layers)
    /\ target > 0 => as_mut_dict(layers[target], handle)
    /\ LET r == mutate(target, m, layers, db, handle)
       IN  /\ layers' = r.layers
           /\ db' = r.file
           /\ OpFrame(m.op, target, m.syllables, m.text, m.freq, r.status)
    /\ UNCHANGED handle

Insert(target, syls, text, freq) ==
    /\ nops < MaxOps
    /\ Mutate(target, Mutation("insert", syls, text, freq))

Update(target, syls, text, user_freq) ==
    /\ nops < MaxOps
    /\ Mutate(target, Mutation("update", syls, text, user_freq))

Remove(target, syls, text) ==
    /\ nops < MaxOps
    /\ Mutate(target, Mutation("remove", syls, text, 0))

DictNext ==
    \/ Open
    \/ OpenReadOnly
    \/ Close
    \/ \E target \in 0..2, syls \in DKeys, text \in TextSet, freq \in DFreqs :
           Insert(target, syls, text, freq)
    \/ \E target \in 0..2, syls \in DKeys, text \in TextSet, freq \in DFreqs :
           Update(target, syls, text, freq)
    \/ \E target \in 0..2, syls \in DKeys, text \in TextSet :
           Remove(target, syls, text)

SpecDict == DictInit /\ [][DictNext]_vars


----------------------------------------------------------------------------
(* Vocabulary of the dictionary properties.                                *)

LayerTexts(i, syls) == Texts(layer_lookup_phrase(layers[i], db, syls))

LayerFreq(i, syls, t) ==
    LET phrases == layer_lookup_phrase(layers[i], db, syls)
    IN  phrases[IndexOf(phrases, t)].freq

LayeredLookup(syls) == layered_lookup_phrase(layers, db, blocked, syls)

Mutable(i) == as_mut_dict(layers[i], handle)

\* The highest layer that returns text t for syls.
TopHolder(syls, t) ==
    CHOOSE j \in 1..Len(layers) :
        /\ t \in LayerTexts(j, syls)
        /\ \A k \in (j + 1)..Len(layers) : t \notin LayerTexts(k, syls)

\* Text t is returned for syls by the base layer and by a layer above it.
Overridden(syls, t) ==
    /\ StackReady
    /\ Len(layers) > 1
    /\ t \in LayerTexts(1, syls)
    /\ \E j \in 2..Len(layers) : t \in LayerTexts(j, syls)

----------------------------------------------------------------------------
(* Claims about the dictionaries.                                          *)

\* C11 as stated: when the base layer and a layer above both return text t,
\* the layered lookup has exactly one entry for t, with the upper layer's
\* frequency, at the position t has in the base layer's list.
C11_LayeredPrecedence ==
    \A syls \in DKeys, t \in TextSet :
        Overridden(syls, t) =>
            LET R == LayeredLookup(syls)
                base == layer_lookup_phrase(layers[1], db, syls)
            IN  /\ CountOf(R, t) = 1
                /\ R[IndexOf(R, t)].freq = LayerFreq(TopHolder(syls, t), syls, t)
                /\ IndexOf(R, t) = IndexOf(base, t)

\* C11 amended: the same for a text no block list contains, the position
\* being the one t has among the base layer's phrases that are not blocked.
C11_LayeredPrecedenceUnblocked ==
    \A syls \in DKeys, t \in TextSet :
        (Overridden(syls, t) /\ ~is_blocked(blocked, t)) =>
            LET R == LayeredLookup(syls)
                base == SelectSeq(layer_lookup_phrase(layers[1], db, syls),
                                  LAMBDA ph : ~is_blocked(blocked, ph.phrase))
            IN  /\ CountOf(R, t) = 1
                /\ R[IndexOf(R, t)].freq = LayerFreq(TopHolder(syls, t), syls, t)
                /\ IndexOf(R, t) = IndexOf(base, t)

\* An unblocked text that an upper layer overrides with another frequency
\* and that is not the last entry of the layered result.
C11_Witness ==
    \E syls \in DKeys, t \in TextSet :
        /\ Overridden(syls, t)
        /\ ~is_blocked(blocked, t)
        /\ LayerFreq(TopHolder(syls, t), syls, t) # LayerFreq(1, syls, t)
        /\ IndexOf(LayeredLookup(syls), t) < Len(LayeredLookup(syls))


\* The last operation was the given mutation of the layered dictionary
\* (target 0) or of one layer, and it returned Ok.
Succeeded(op) == last.op = op /\ last.status = "ok"

LastPhrase == Phrase(last.text, last.freq)

Range(phrases) == {phrases[i] : i \in 1..Len(phrases)}

\* lookup_phrase, after the last operation, on the dictionary it addressed.
LookupAfter ==
    dictionary_lookup(last.target, layers, db, blocked, last.syllables)

\* lookup_phrase, before the last operation, on the dictionary it addressed.
LookupBefore ==
    dictionary_lookup(last.target, pre.layers, pre.db, blocked,
                      last.syllables)

\* C12: a text that a block list contains is in no layered lookup result,
\* whatever inserts, updates and removes have been made.
C12_BlockedNeverReturned ==
    StackReady =>
        \A syls \in DKeys, t \in TextSet :
            is_blocked(blocked, t) => t \notin Texts(LayeredLookup(syls))

\* A layered insert has just stored a blocked text in some layer.
C12_Witness ==
    /\ Succeeded("insert")
    /\ last.target = 0
    /\ is_blocked(blocked, last.text)
    /\ \E i \in 1..Len(layers) : last.text \in LayerTexts(i, last.syllables)

\* C13 as stated: after insert((S, p)) has succeeded on a dictionary, p is
\* in lookup_phrase(S) of that dictionary.
C13_InsertThenLookup ==
    Succeeded("insert") => LastPhrase \in Range(LookupAfter)

\* The layered lookup cannot return the phrase just inserted: its text is
\* blocked, no layer supports mutation, or the highest layer holding the
\* text is a read-only one holding it with another frequency.
HiddenFromLayered ==
    \/ is_blocked(blocked, last.text)
    \/ \A i \in 1..Len(layers) : ~Mutable(i)
    \/ /\ \E i \in 1..Len(layers) : last.text \in LayerTexts(i, last.syllables)
       /\ ~Mutable(TopHolder(last.syllables, last.text))
       /\ LayerFreq(TopHolder(last.syllables, last.text), last.syllables,
                    last.text) # last.freq

\* C13 amended: after a successful insert p is in lookup_phrase(S) of the
\* dictionary itself and, for a layered dictionary, of every layer that
\* supports mutation; the layered lookup returns p unless p is hidden.
C13_InsertThenLookupUnlessHidden ==
    Succeeded("insert") =>
        IF last.target > 0 THEN LastPhrase \in Range(LookupAfter)
        ELSE /\ \A i \in 1..Len(layers) :
                    Mutable(i) =>
                        LastPhrase \in Range(layer_lookup_phrase(
                                          layers[i], db, last.syllables))
             /\ LastPhrase \in Range(LookupAfter) \/ HiddenFromLayered

\* A layered insert has succeeded and the layered lookup returns the phrase.
C13_Witness ==
    /\ Succeeded("insert")
    /\ last.target = 0
    /\ \E i \in 1..Len(layers) : Mutable(i)
    /\ LastPhrase \in Range(LookupAfter)


\* C14 as stated: after remove(S, text) on a dictionary, no phrase with that
\* text is in lookup_phrase(S) of that dictionary.
C14_RemoveThenLookup ==
    Succeeded("remove") => last.text \notin Texts(LookupAfter)

\* C14 amended: after a successful remove the text is in lookup_phrase(S)
\* of no layer that supports mutation; the layered lookup still returns it
\* only when a layer that does not support mutation holds it.
C14_RemoveThenLookupUnlessReadOnly ==
    Succeeded("remove") =>
        IF last.target > 0 THEN last.text \notin Texts(LookupAfter)
        ELSE /\ \A i \in 1..Len(layers) :
                    Mutable(i) => last.text \notin LayerTexts(i, last.syllables)
             /\ last.text \in Texts(LookupAfter) =>
                    \E i \in 1..Len(layers) :
                        /\ ~Mutable(i)
                        /\ last.text \in LayerTexts(i, last.syllables)

\* A layered remove has taken a phrase out of two layers and out of the
\* layered lookup.
C14_Witness ==
    /\ Succeeded("remove")
    /\ last.target = 0
    /\ last.text \in Texts(LookupBefore)
    /\ last.text \notin Texts(LookupAfter)
    /\ Cardinality({i \in 1..Len(layers) :
                        pre.layers[i] # layers[i]}) > 1

\* C15 as stated: insert returns DuplicatePhrase whenever lookup_phrase(S)
\* of the dictionary already had a phrase with the same text.
C15_InsertDuplicateFails ==
    (last.op = "insert" /\ last.text \in Texts(LookupBefore)) =>
        last.status = "DuplicatePhrase"

\* The first layer of the stack, as it was, that supports mutation.
FirstMutable ==
    CHOOSE i \in 1..Len(layers) :
        Mutable(i) /\ \A k \in 1..(i - 1) : ~Mutable(k)

HeldBefore(i) ==
    last.text \in
        Texts(layer_lookup_phrase(pre.layers[i], pre.db, last.syllables))

\* C15 amended: insert returns DuplicatePhrase whenever the text is already
\* at the syllables of a HashMap dictionary, or of the first layer that
\* supports mutation of a layered dictionary when that layer is a HashMap;
\* the insert of a SqliteDictionary never returns DuplicatePhrase.
C15_HashMapInsertDuplicateFails ==
    last.op = "insert" =>
        IF last.target > 0
        THEN IF layers[last.target].kind = "HashMap"
             THEN HeldBefore(last.target) => last.status = "DuplicatePhrase"
             ELSE last.status # "DuplicatePhrase"
        ELSE (/\ \E i \in 1..Len(layers) : Mutable(i)
              /\ layers[FirstMutable].kind = "HashMap"
              /\ HeldBefore(FirstMutable)) => last.status = "DuplicatePhrase"

\* An insert of a text the HashMap already held has been refused.
C15_Witness ==
    /\ last.op = "insert"
    /\ last.target > 0
    /\ layers[last.target].kind = "HashMap"
    /\ HeldBefore(last.target)
    /\ last.status = "DuplicatePhrase"


LastMutation ==
    Mutation(last.op, last.syllables, last.text, last.freq)

IsMutation == last.op \in {"insert", "update", "remove"}

\* What the mutation of layer i alone makes of the stack as it was.
AppliedTo(i) == layer_mutate(LastMutation, pre.layers, pre.db, i)

\* Layer i holds what its own insert, update or remove left.
LayerApplied(i) ==
    /\ AppliedTo(i).status = "ok"
    /\ IF layers[i].kind = "HashMap"
       THEN layers[i] = AppliedTo(i).layers[i]
       ELSE db = AppliedTo(i).file

\* Layer i holds what it held before the call.
LayerUntouched(i) ==
    IF layers[i].kind = "HashMap" THEN layers[i] = pre.layers[i]
    ELSE db = pre.db

\* C16: a layered insert, update or remove that returned Ok has been
\* applied to every layer that supports mutation, and to no other layer.
C16_SuccessAppliedToEveryLayer ==
    (IsMutation /\ last.target = 0 /\ last.status = "ok") =>
        \A i \in 1..Len(layers) :
            IF Mutable(i) THEN LayerApplied(i) ELSE LayerUntouched(i)

\* A layered insert has succeeded on a stack of two mutable layers and
\* changed both.
C16_Witness ==
    /\ Succeeded("insert")
    /\ last.target = 0
    /\ Len(layers) > 1
    /\ \A i \in 1..Len(layers) : Mutable(i) /\ layers[i] # pre.layers[i]

\* C17: a layered mutation that returned an error stopped at the first
\* layer that failed: it returns that layer's error, the mutable layers
\* before it keep the mutation, and the layers after it are untouched.
C17_ErrorAbortsWithoutRollback ==
    (IsMutation /\ last.target = 0 /\ last.status # "ok") =>
        \E k \in 1..Len(layers) :
            /\ Mutable(k)
            /\ AppliedTo(k).status = last.status
            /\ \A i \in 1..(k - 1) :
                   IF Mutable(i) THEN LayerApplied(i) ELSE LayerUntouched(i)
            /\ \A i \in (k + 1)..Len(layers) : LayerUntouched(i)

\* A layered insert has failed at the second layer after the first layer
\* took the phrase.
C17_Witness ==
    /\ last.op = "insert"
    /\ last.target = 0
    /\ last.status = "DuplicatePhrase"
    /\ Len(layers) > 1
    /\ layers[1] # pre.layers[1]
    /\ layers[2] = pre.layers[2]

\* C18: when insert, update or remove returns an error, the user dictionary
\* file holds what it held before the call.
C18_ErrorLeavesStoreUnchanged ==
    (IsMutation /\ last.status # "ok") => db = pre.db

\* An insert that reached the read-write SqliteDictionary on a file with
\* rows has failed.
C18_Witness ==
    /\ last.op = "insert"
    /\ last.status = "SqlError"
    /\ handle = "rw"
    /\ db.dictionary_v1 # {}


\* C19: opening the user dictionary read-write succeeds every time.
C19_OpenSucceedsEveryTime ==
    last.op = "open" => last.status = "ok"

\* C20: opening read-only leaves the file as it was (no table created, no
\* migration run), and while the handle is read-only no operation changes
\* the file.
C20_ReadOnlyNeverChangesFile ==
    /\ last.op = "open_read_only" => db = pre.db
    /\ handle = "ro" => db = pre.db

\* A layered remove has succeeded on a stack whose SqliteDictionary is open
\* read-only and still holds the text.
C20_Witness ==
    /\ handle = "ro"
    /\ Succeeded("remove")
    /\ last.target = 0
    /\ \E i \in 1..Len(layers) :
           /\ layers[i].kind = "Sqlite"
           /\ last.text \in LayerTexts(i, last.syllables)


\* The rows of the user dictionary file stored under syls.
RowsAt(syls) == {r \in db.dictionary_v1 : r.syllables = syls}

\* The order the claim gives: rows with a sort_id before rows without one,
\* then sort_id ascending, freq descending, text descending.
ClaimedBefore(a, b) ==
    IF (a.sort_id = None) # (b.sort_id = None) THEN b.sort_id = None
    ELSE IF a.sort_id # b.sort_id THEN a.sort_id[1] < b.sort_id[1]
    ELSE IF a.freq # b.freq THEN a.freq > b.freq
    ELSE TextRank(a.phrase) > TextRank(b.phrase)

\* C21: lookup_phrase of the user dictionary returns the rows of a key
\* ordered by sort_id ascending, freq descending, text descending, and every
\* row without a sort_id after every row that has one.
C21_LookupOrder ==
    handle # "closed" =>
        \A syls \in DKeys :
            LET R == sqlite_lookup_phrase(db, syls)
            IN  \A a, b \in RowsAt(syls) :
                    (a # b /\ ClaimedBefore(a, b)) =>
                        IndexOf(R, a.phrase) < IndexOf(R, b.phrase)

\* C22: insert and update of the user dictionary are an upsert: afterwards
\* the file holds exactly one row for (syllables, text), and that row carries
\* the frequency given to the call.
C22_UpsertLatestValues ==
    (last.op \in {"insert", "update"} /\ last.target > 0
        /\ layers[last.target].kind = "Sqlite") =>
        LET rows == {r \in RowsAt(last.syllables) : r.phrase = last.text}
        IN  /\ Cardinality(rows) = 1
            /\ \A r \in rows : r.freq = last.freq

\* C23: after the read-write open of a file holding a userphrase_v1 table
\* has succeeded, lookup_phrase returns, for the syllables of every row of
\* userphrase_v1 (its phones that are not 0), the phrase text of that row.
C23_MigratedRowsLookedUp ==
    (Succeeded("open") /\ "userphrase_v1" \in db.tables) =>
        \A i \in 1..Len(db.userphrase_v1) :
            LET item == db.userphrase_v1[i]
                syls == SelectSeq(item.phones, LAMBDA phone : phone # 0)
            IN  item.phrase \in Texts(sqlite_lookup_phrase(db, syls))

\* The read-write open of a file with several userphrase_v1 rows, two of
\* them under the same syllables, has succeeded.
C23_Witness ==
    /\ Succeeded("open")
    /\ \E i, j \in 1..Len(db.userphrase_v1) :
           /\ i # j
           /\ db.userphrase_v1[i].phones = db.userphrase_v1[j].phones
    /\ pre.db.dictionary_v1 = {}


----------------------------------------------------------------------------
(* The packed Syllable (src/src/zhuyin).                                   *)
(*                                                                         *)
(* A Syllable is a 16-bit value: bits 15..9 the initial, 8..7 the medial,  *)
(* 6..3 the rime, 2..0 the tone, each slot 0 when it is empty.             *)

\* enum Bopomofo in declaration order.
Bopomofo ==
    << "B", "P", "M", "F", "D", "T", "N", "L", "G", "K", "H", "J", "Q", "X",
       "ZH", "CH", "SH", "R", "Z", "C", "S",
       "I", "U", "IU",
       "A", "O", "E", "EH", "AI", "EI", "AU", "OU", "AN", "EN", "ANG", "ENG",
       "ER",
       "TONE5", "TONE2", "TONE3", "TONE4", "TONE1" >>

BopomofoSet == {Bopomofo[i] : i \in 1..Len(Bopomofo)}

\* The discriminant of each variant, counted from 0.
Discriminant ==
    [b \in BopomofoSet |-> (CHOOSE i \in 1..Len(Bopomofo) : Bopomofo[i] = b) - 1]

\* `bopomofo as u16`
as_u16(b) == Discriminant[b]

Kinds == {"Initial", "Medial", "Rime", "Tone"}

\* INITIAL_MAP, MEDIAL_MAP, RIME_MAP and TONE_MAP.
SLOT_MAP ==
    [ Initial |-> << "B", "P", "M", "F", "D", "T", "N", "L", "G", "K", "H",
                     "J", "Q", "X", "ZH", "CH", "SH", "R", "Z", "C", "S" >>,
      Medial  |-> << "I", "U", "IU" >>,
      Rime    |-> << "A", "O", "E", "EH", "AI", "EI", "AU", "OU", "AN", "EN",
                     "ANG", "ENG", "ER" >>,
      Tone    |-> << "TONE5", "TONE2", "TONE3", "TONE4" >> ]

kind(b) ==
    IF b \in { "B", "P", "M", "F", "D", "T", "N", "L", "G", "K", "H", "J",
               "Q", "X", "ZH", "CH", "SH", "R", "Z", "C", "S" }
    THEN "Initial"
    ELSE IF b \in {"I", "U", "IU"} THEN "Medial"
    ELSE IF b \in { "A", "O", "E", "EH", "AI", "EI", "AU", "OU", "AN", "EN",
                    "ANG", "ENG", "ER" }
    THEN "Rime"
    ELSE "Tone"

\* The index a slot of the value holds (shift and mask).
slot_index(value, k) ==
    CASE k = "Initial" -> value \div 512
      [] k = "Medial"  -> (value \div 128) % 4
      [] k = "Rime"    -> (value \div 8) % 16
      [] k = "Tone"    -> value % 8

\* initial(), medial(), rime(), tone(): None for index 0, else the symbol
\* from_initial .. from_tone give; an index outside the map panics.
slot(value, k) ==
    LET index == slot_index(value, k)
    IN  IF index = 0 THEN Done("ok", None)
        ELSE IF index \in 1..Len(SLOT_MAP[k])
        THEN Done("ok", Some(SLOT_MAP[k][index]))
        ELSE Done("panic", None)

\* The value with slot k cleared (the mask of remove_initial .. remove_tone).
clear_slot(value, k) ==
    CASE k = "Initial" -> value % 512
      [] k = "Medial"  -> value - ((value \div 128) % 4) * 128
      [] k = "Rime"    -> value - ((value \div 8) % 16) * 8
      [] k = "Tone"    -> value - (value % 8)

\* update(bopomofo): remove_<kind>() reads the slot, clears it, and the new
\* index is or-ed in.
update(value, b) ==
    LET k == kind(b)
        bits == CASE k = "Initial" -> (as_u16(b) + 1) * 512
                  [] k = "Medial"  -> (as_u16(b) - 20) * 128
                  [] k = "Rime"    -> (as_u16(b) - 23) * 8
                  [] k = "Tone"    -> as_u16(b) - 36
    IN  IF slot(value, k).status = "panic" THEN Done("panic", value)
        ELSE Done("ok", clear_slot(value, k) + bits)

\* remove_initial(), remove_medial(), remove_rime(), remove_tone(): the
\* slot is read, then masked out; the symbol read is returned.
remove(value, k) ==
    LET got == slot(value, k)
    IN  IF got.status = "panic"
        THEN [status |-> "panic", value |-> value, ret |-> None]
        ELSE [status |-> "ok", value |-> clear_slot(value, k),
              ret |-> got.value]

\* clear(): *self = Syllable::new()
clear(value) == 0

PopOrder == <<"Tone", "Rime", "Medial", "Initial">>

\* pop(): the slots are tried as tone, rime, medial, initial; the first one
\* that is Some is removed and returned.
RECURSIVE pop_from(_, _)
pop_from(value, i) ==
    IF i > Len(PopOrder) THEN [status |-> "ok", value |-> value, ret |-> None]
    ELSE LET got == slot(value, PopOrder[i])
         IN  IF got.status = "panic"
             THEN [status |-> "panic", value |-> value, ret |-> None]
             ELSE IF got.value # None
             THEN [status |-> "ok", value |-> clear_slot(value, PopOrder[i]),
                   ret |-> got.value]
             ELSE pop_from(value, i + 1)

pop(value) == pop_from(value, 1)

Builds == {"debug", "release"}

\* to_u16(): debug_assert!(!self.is_empty()) is compiled into debug builds
\* only.
to_u16(value, build) ==
    IF value = 0 /\ build = "debug" THEN Done("panic", 0)
    ELSE Done("ok", value)

\* TryFrom<u16>: no value is rejected.
try_from(x) == Done("ok", x)

\* The 16-bit values handed to try_from: empty, well-formed ones, and ones
\* with an index outside its map in the initial, the rime or the tone.
Codes ==
    { 0, 10752, 10268, 8708, 5,
      11264, 65024, 112, 120, 6, 7, 65535 }

\* The symbols handed to update: the first and the last of each map, the
\* initials of the Hsu fuzzy rule, every medial and every tone.
Symbols ==
    { "B", "G", "J", "S", "I", "U", "IU", "A", "ER",
      "TONE1", "TONE2", "TONE3", "TONE4", "TONE5" }

SylOp(op, arg, before, res) ==
    [op |-> op, arg |-> arg, before |-> before, result |-> res]

\* The process has not panicked.
SylAlive == slast.result.status # "panic"

\* No converter session is open.
ConvOff ==
    /\ dict = << >>
    /\ syllables = << >>
    /\ selections = << >>
    /\ breaks = << >>
    /\ call = NoCall
    /\ result = NoResult

\* Syllable::new()
ZhuyinInit ==
    /\ ConvOff
    /\ DictIdle
    /\ EditorIdle
    /\ ZhuyinIdle

ZhuyinFrame == UNCHANGED <<cvars, dvars, evars>>

SylUpdate(b) ==
    /\ SylAlive
    /\ LET r == update(syl, b)
       IN  /\ syl' = r.value
           /\ slast' = SylOp("update", Some(b), syl, Done(r.status, None))
    /\ ZhuyinFrame

SylPop ==
    /\ SylAlive
    /\ LET r == pop(syl)
       IN  /\ syl' = r.value
           /\ slast' = SylOp("pop", None, syl, Done(r.status, r.ret))
    /\ ZhuyinFrame

SylRemove(k) ==
    /\ SylAlive
    /\ LET r == remove(syl, k)
       IN  /\ syl' = r.value
           /\ slast' = SylOp("remove", Some(k), syl, Done(r.status, r.ret))
    /\ ZhuyinFrame

SylClear ==
    /\ SylAlive
    /\ syl' = clear(syl)
    /\ slast' = SylOp("clear", None, syl, Done("ok", None))
    /\ ZhuyinFrame

SylToU16(build) ==
    /\ SylAlive
    /\ syl' = syl
    /\ slast' = SylOp("to_u16", Some(build), syl, to_u16(syl, build))
    /\ ZhuyinFrame

SylTryFrom(x) ==
    /\ SylAlive
    /\ LET r == try_from(x)
       IN  /\ syl' = IF r.status = "ok" THEN r.value ELSE syl
           /\ slast' = SylOp("try_from", Some(x), 0, r)
    /\ ZhuyinFrame

ZhuyinNext ==
    \/ \E b \in Symbols : SylUpdate(b)
    \/ SylPop
    \/ \E k \in Kinds : SylRemove(k)
    \/ SylClear
    \/ \E build \in Builds : SylToU16(build)
    \/ \E x \in Codes : SylTryFrom(x)

SpecZhuyin == ZhuyinInit /\ [][ZhuyinNext]_vars


----------------------------------------------------------------------------
(* Claims about the Syllable.                                              *)

\* The index update stores for each symbol, in the slot of its kind.
StoredIndex ==
    [b \in BopomofoSet |-> slot_index(update(0, b).value, kind(b))]

\* The symbols of kind k that update stores as index.
StoredAs(k, index) ==
    {b \in BopomofoSet : kind(b) = k /\ StoredIndex[b] = index}

LegalIndexes ==
    [k \in Kinds |-> {StoredIndex[b] : b \in {c \in BopomofoSet : kind(c) = k}}]

\* Every slot of x is empty or holds the index of a symbol of its kind.
Legal(x) ==
    \A k \in Kinds :
        slot_index(x, k) = 0 \/ slot_index(x, k) \in LegalIndexes[k]

\* The symbol of the combination a Syllable was built from, in slot k: None
\* for index 0, else a symbol update stores as that index.
Built(value, k, symbol) ==
    IF slot_index(value, k) = 0 THEN symbol = None
    ELSE \E b \in StoredAs(k, slot_index(value, k)) : symbol = Some(b)

\* C24: every Syllable built from at most one symbol per kind, the empty
\* one and the five tones included, is encoded, and decoding the encoding
\* gives an equal Syllable whose four slots read back the symbols it was
\* built from; every legal 16-bit value is decoded, and encoding the
\* decoded Syllable gives the value back.
C24_RoundTrip ==
    /\ (slast.op = "to_u16" /\ Legal(slast.before)) =>
           /\ slast.result.status = "ok"
           /\ try_from(slast.result.value) = Done("ok", slast.before)
           /\ \A k \in Kinds :
                  LET read == slot(try_from(slast.result.value).value, k)
                  IN  /\ read.status = "ok"
                      /\ Built(slast.before, k, read.value)
    /\ (slast.op = "try_from" /\ Legal(slast.arg[1])) =>
           /\ slast.result.status = "ok"
           /\ \A build \in Builds :
                  to_u16(slast.result.value, build) = Done("ok", slast.arg[1])

\* C25: decoding a 16-bit value with a slot that names no Bopomofo returns
\* a DecodeSyllable error.
C25_DecodeRejectsInvalid ==
    (slast.op = "try_from" /\ ~Legal(slast.arg[1])) =>
        slast.result.status = "DecodeSyllable"

\* The first slot of the Syllable that is not empty, taken as tone, rime,
\* medial, initial.
FirstToPop(value) ==
    PopOrder[CHOOSE i \in 1..4 :
                 /\ slot_index(value, PopOrder[i]) # 0
                 /\ \A j \in 1..(i - 1) : slot_index(value, PopOrder[j]) = 0]

\* C26: pop returns the symbol of the first slot that is not empty, in the
\* order tone, rime, medial, initial, and empties that slot only; on an
\* empty Syllable it returns None and leaves the Syllable empty.
C26_PopReverseDisplayOrder ==
    (slast.op = "pop" /\ Legal(slast.before)) =>
        /\ slast.result.status = "ok"
        /\ IF slast.before = 0
           THEN slast.result.value = None /\ syl = 0
           ELSE LET k == FirstToPop(slast.before)
                IN  /\ slast.result.value # None
                    /\ slast.result.value[1]
                           \in StoredAs(k, slot_index(slast.before, k))
                    /\ syl = clear_slot(slast.before, k)

\* C27: update(b) on a Syllable makes the slot of b's kind read back as b
\* and leaves the other three slots as they were.
C27_UpdateReplacesOneSlot ==
    (slast.op = "update" /\ Legal(slast.before)) =>
        /\ slast.result.status = "ok"
        /\ slot(syl, kind(slast.arg[1])) = Done("ok", slast.arg)
        /\ \A k \in Kinds \ {kind(slast.arg[1])} :
               slot_index(syl, k) = slot_index(slast.before, k)


----------------------------------------------------------------------------
(* The Hsu syllable editor (src/src/editor/layout/hsu.rs).                 *)
(*                                                                         *)
(* The editor holds one Syllable; key_press maps a key of the QWERTY       *)
(* layout to a Bopomofo by what the Syllable already holds.  The symbols   *)
(* the editor stores are all in their maps, so update and the slot reads   *)
(* it makes return normally.                                               *)

\* The KeyCodes pressed: the end keys, every key whose symbol depends on
\* the buffer or takes part in a rewrite, one plain initial (B), one plain
\* rime (Y), and two keys Hsu does not map (Q and the digit 1).
HsuKeys ==
    { "S", "D", "F", "J", "Space",
      "A", "G", "H", "K", "L", "M", "N",
      "C", "V", "E", "U", "X",
      "B", "Y", "Q", "N1" }

\* What initial(), medial() or rime() returns, as an Option.
held(value, k) == slot(value, k).value

\* self.syllable.update(b)
put(value, b) == update(value, b).value

\* is_hsu_end_key that does not look at the syllable.
is_hsu_end_key_any_buffer(value, key) ==
    key \in {"S", "D", "F", "J", "Space"}

is_hsu_end_key(value, key) ==
    IF key \in {"S", "D", "F", "J", "Space"} THEN value # 0 ELSE FALSE

\* "fuzzy G+I to J+I and G+IU to J+IU": the match on (initial, medial).
hsu_fuzzy(value) ==
    IF /\ held(value, "Initial") \in {Some("G"), Some("J")}
       /\ held(value, "Medial") = Some("I")
    THEN put(value, "IU")
    ELSE value

\* An end key that empties the syllable it commits.
hsu_end_key_emptied(value, key) ==
    [behavior |-> "Commit", typed |-> None, syllable |-> 0]

\* An end key that sets the tone and rewrites nothing.
hsu_end_key_unrewritten(value, key) ==
    [behavior |-> "Commit", typed |-> None,
     syllable |-> CASE key = "D" -> put(value, "TONE2")
                    [] key = "F" -> put(value, "TONE3")
                    [] key = "J" -> put(value, "TONE4")
                    [] key = "S" -> put(value, "TONE5")
                    [] OTHER -> clear_slot(value, "Tone")]

\* key_press, the branch of an end key.
hsu_end_key(value, key) ==
    LET ini == held(value, "Initial")
        rewritten ==
            IF held(value, "Medial") = None /\ held(value, "Rime") = None
               /\ ini # None
            THEN CASE ini[1] = "J" -> put(value, "ZH")
                   [] ini[1] = "Q" -> put(value, "CH")
                   [] ini[1] = "X" -> put(value, "SH")
                   [] ini[1] = "H" -> put(clear_slot(value, "Initial"), "O")
                   [] ini[1] = "G" -> put(clear_slot(value, "Initial"), "E")
                   [] ini[1] = "M" -> put(clear_slot(value, "Initial"), "AN")
                   [] ini[1] = "N" -> put(clear_slot(value, "Initial"), "EN")
                   [] ini[1] = "K" -> put(clear_slot(value, "Initial"), "ANG")
                   [] ini[1] = "L" -> put(clear_slot(value, "Initial"), "ER")
                   [] OTHER -> value
            ELSE value
        fuzzed == hsu_fuzzy(rewritten)
        toned == CASE key = "D" -> put(fuzzed, "TONE2")
                   [] key = "F" -> put(fuzzed, "TONE3")
                   [] key = "J" -> put(fuzzed, "TONE4")
                   [] key = "S" -> put(fuzzed, "TONE5")
                   [] OTHER -> clear_slot(fuzzed, "Tone")
    IN  [behavior |-> "Commit", typed |-> None, syllable |-> toned]

\* The Bopomofo of a key that is not an end key; None for a key Hsu does
\* not map.
hsu_bopomofo(value, key) ==
    LET has_initial_or_medial ==
            held(value, "Initial") # None \/ held(value, "Medial") # None
        either(after, first) ==
            Some(IF has_initial_or_medial THEN after ELSE first)
    IN  CASE key = "A" -> either("EI", "C")
          [] key = "B" -> Some("B")
          [] key = "C" -> Some("SH")
          [] key = "D" -> Some("D")
          [] key = "E" -> Some("I")
          [] key = "F" -> Some("F")
          [] key = "G" -> either("E", "G")
          [] key = "H" -> either("O", "H")
          [] key = "I" -> Some("AI")
          [] key = "J" -> Some("ZH")
          [] key = "K" -> either("ANG", "K")
          [] key = "L" -> either("ENG", "L")
          [] key = "M" -> either("AN", "M")
          [] key = "N" -> either("EN", "N")
          [] key = "O" -> Some("OU")
          [] key = "P" -> Some("P")
          [] key = "R" -> Some("R")
          [] key = "S" -> Some("S")
          [] key = "T" -> Some("T")
          [] key = "U" -> Some("IU")
          [] key = "V" -> Some("CH")
          [] key = "W" -> Some("AU")
          [] key = "X" -> Some("U")
          [] key = "Y" -> Some("A")
          [] key = "Z" -> Some("Z")
          [] OTHER -> None

\* The branch of the other keys without the rewrites of the initial.
hsu_other_key_as_typed(value, key) ==
    LET b == hsu_bopomofo(value, key)
    IN  IF b = None
        THEN [behavior |-> "NoWord", typed |-> None, syllable |-> value]
        ELSE [behavior |-> "Absorb", typed |-> b,
              syllable |-> put(value, b[1])]

\* key_press, the branch of the other keys.
hsu_other_key(value, key) ==
    LET b == hsu_bopomofo(value, key)
        bopomofo == b[1]
        fuzzed == hsu_fuzzy(value)
        ini1 == held(fuzzed, "Initial")
        retroflexed ==
            IF \/ bopomofo = "U"
               \/ (kind(bopomofo) = "Rime" /\ held(fuzzed, "Medial") = None)
            THEN CASE ini1 = Some("J") -> put(fuzzed, "ZH")
                   [] ini1 = Some("Q") -> put(fuzzed, "CH")
                   [] ini1 = Some("X") -> put(fuzzed, "SH")
                   [] OTHER -> fuzzed
            ELSE fuzzed
        ini2 == held(retroflexed, "Initial")
        palatalized ==
            IF bopomofo \in {"I", "IU"}
            THEN CASE ini2 = Some("ZH") -> put(retroflexed, "J")
                   [] ini2 = Some("CH") -> put(retroflexed, "Q")
                   [] ini2 = Some("SH") -> put(retroflexed, "X")
                   [] OTHER -> retroflexed
            ELSE retroflexed
    IN  IF b = None
        THEN [behavior |-> "NoWord", typed |-> None, syllable |-> value]
        ELSE [behavior |-> "Absorb", typed |-> b,
              syllable |-> put(palatalized, bopomofo)]

\* Hsu::key_press
hsu_key_press(value, key) ==
    IF is_hsu_end_key(value, key) THEN hsu_end_key(value, key)
    ELSE hsu_other_key(value, key)

\* Hsu::new()
HsuInit ==
    /\ ConvOff
    /\ DictIdle
    /\ ZhuyinIdle
    /\ editor = [layout |-> "Hsu", syllable |-> 0]
    /\ elast = NoKey

EditorFrame == UNCHANGED <<cvars, dvars, zvars>>

Buffer(value) ==
    [empty |-> value = 0, initial |-> held(value, "Initial"),
     medial |-> held(value, "Medial"), rime |-> held(value, "Rime")]

KeyPress(key) ==
    /\ LET r == hsu_key_press(editor.syllable, key)
       IN  /\ editor' = [editor EXCEPT !.syllable = r.syllable]
           /\ elast' = [key |-> key, behavior |-> r.behavior,
                        typed |-> r.typed,
                        before |-> Buffer(editor.syllable)]
    /\ EditorFrame

\* remove_last(): self.syllable.pop()
RemoveLast ==
    /\ editor' = [editor EXCEPT !.syllable = pop(@).value]
    /\ elast' = [key |-> "remove_last", behavior |-> "none",
                 typed |-> None, before |-> Buffer(editor.syllable)]
    /\ EditorFrame

\* clear(): the session clears the editor after it has read the syllable.
Clear ==
    /\ editor' = [editor EXCEPT !.syllable = 0]
    /\ elast' = [key |-> "clear", behavior |-> "none",
                 typed |-> None, before |-> Buffer(editor.syllable)]
    /\ EditorFrame

HsuNext ==
    \/ \E key \in HsuKeys : KeyPress(key)
    \/ RemoveLast
    \/ Clear

SpecHsu == HsuInit /\ [][HsuNext]_vars


----------------------------------------------------------------------------
(* Claims about the Hsu editor.                                            *)

EndKeys == {"S", "D", "F", "J", "Space"}

\* C28 as stated: after a key sequence that ends in s, d, f, j or space,
\* key_press has returned Commit and read() is not empty, or it has
\* returned NoWord or KeyError.
C28_EndKeyInvariant ==
    elast.key \in EndKeys =>
        \/ elast.behavior = "Commit" /\ editor.syllable # 0
        \/ elast.behavior \in {"NoWord", "KeyError"}

\* C28 amended: pressed on a buffer that is not empty, s, d, f, j and space
\* return Commit and read() is not empty; pressed on an empty buffer, space
\* returns NoWord and leaves the buffer empty, and s, d, f, j are taken as
\* initials and return Absorb.
C28_EndKeyOnBuffer ==
    elast.key \in EndKeys =>
        IF ~elast.before.empty
        THEN elast.behavior = "Commit" /\ editor.syllable # 0
        ELSE IF elast.key = "Space"
        THEN elast.behavior = "NoWord" /\ editor.syllable = 0
        ELSE /\ elast.behavior = "Absorb"
             /\ held(editor.syllable, "Initial") # None

\* Space has committed a buffer that held an initial and now holds a rime
\* and no initial (the rewrite of a lone initial).
C28_Witness ==
    /\ elast.key = "Space"
    /\ elast.behavior = "Commit"
    /\ elast.before.initial # None
    /\ held(editor.syllable, "Initial") = None
    /\ held(editor.syllable, "Rime") # None

\* C29: pressed on an empty buffer, none of s, d, f, j and space returns
\* Commit.
C29_NoCommitOnEmptyBuffer ==
    (elast.key \in EndKeys /\ elast.before.empty) =>
        elast.behavior # "Commit"

\* One of s, d, f, j has been pressed on an empty buffer and absorbed.
C29_Witness ==
    /\ elast.key \in EndKeys \ {"Space"}
    /\ elast.before.empty
    /\ elast.behavior = "Absorb"

\* C30: after an end key is pressed on a buffer holding G+I or J+I, the
\* buffer holds the initial J and the medial IU.
C30_FuzzyToJIU ==
    (/\ elast.key \in EndKeys
     /\ elast.before.initial \in {Some("G"), Some("J")}
     /\ elast.before.medial = Some("I")) =>
        /\ held(editor.syllable, "Initial") = Some("J")
        /\ held(editor.syllable, "Medial") = Some("IU")

Retroflex == ("J" :> "ZH") @@ ("Q" :> "CH") @@ ("X" :> "SH")

Palatal == ("ZH" :> "J") @@ ("CH" :> "Q") @@ ("SH" :> "X")

\* The symbol that follows the initial in a syllable: the medial, or the
\* rime when there is no medial.
Following(value) ==
    IF held(value, "Medial") # None THEN held(value, "Medial")
    ELSE held(value, "Rime")

\* A key that is not an end key has been absorbed as a medial or a rime.
TypedMedialOrRime ==
    /\ elast.behavior = "Absorb"
    /\ elast.typed # None
    /\ kind(elast.typed[1]) \in {"Medial", "Rime"}

\* C31: when a medial or a rime is typed, an initial J, Q or X that is now
\* followed by a symbol other than I and IU has become ZH, CH or SH, and an
\* initial ZH, CH or SH followed by the typed I or IU has become J, Q or X.
C31_PalatalFuzzies ==
    TypedMedialOrRime =>
        /\ (/\ elast.before.initial \in {Some("J"), Some("Q"), Some("X")}
            /\ Following(editor.syllable) \notin {Some("I"), Some("IU")}) =>
               held(editor.syllable, "Initial")
                   = Some(Retroflex[elast.before.initial[1]])
        /\ (/\ elast.before.initial \in {Some("ZH"), Some("CH"), Some("SH")}
            /\ elast.typed \in {Some("I"), Some("IU")}) =>
               held(editor.syllable, "Initial")
                   = Some(Palatal[elast.before.initial[1]])

\* A rime has been typed after a lone initial J, which is now ZH.
C31_Witness ==
    /\ TypedMedialOrRime
    /\ kind(elast.typed[1]) = "Rime"
    /\ elast.before.initial = Some("J")
    /\ elast.before.medial = None
    /\ held(editor.syllable, "Initial") = Some("ZH")

HsuToRime ==
    ("H" :> "O") @@ ("G" :> "E") @@ ("M" :> "AN") @@ ("N" :> "EN")
    @@ ("K" :> "ANG") @@ ("L" :> "ER")

\* An end key has committed a buffer with an initial, no medial, no rime.
EndKeyOnLoneInitial ==
    /\ elast.key \in EndKeys
    /\ elast.behavior = "Commit"
    /\ elast.before.initial # None
    /\ elast.before.medial = None
    /\ elast.before.rime = None

\* C32: after an end key on a buffer holding only an initial, J, Q, X have
\* become ZH, CH, SH, and H, G, M, N, K, L are gone and read() has the rime
\* O, E, AN, EN, ANG, ER and no initial.
C32_LoneInitialRewritten ==
    EndKeyOnLoneInitial =>
        LET ini == elast.before.initial[1]
        IN  /\ ini \in DOMAIN Retroflex =>
                /\ held(editor.syllable, "Initial") = Some(Retroflex[ini])
                /\ held(editor.syllable, "Rime") = None
            /\ ini \in DOMAIN HsuToRime =>
                /\ held(editor.syllable, "Initial") = None
                /\ held(editor.syllable, "Rime") = Some(HsuToRime[ini])

\* The keys n f: the lone initial N has become the rime EN with tone 3.
C32_Witness ==
    /\ EndKeyOnLoneInitial
    /\ elast.key = "F"
    /\ elast.before.initial = Some("N")
    /\ held(editor.syllable, "Initial") = None
    /\ held(editor.syllable, "Rime") = Some("EN")
    /\ held(editor.syllable, "Tone") = Some("TONE3")


----------------------------------------------------------------------------
(* The editors over a key buffer: src/src/editor/phonetic.  KeyBuf is four *)
(* Options (initial, medial, final, tone); crate::bopomofo names the kinds *)
(* MedialGlide and Final, written Medial and Rime here as in kind().       *)

KeyBuf(a, b, c, d) == <<a, b, c, d>>

EmptyKeyBuf == KeyBuf(None, None, None, None)

\* The field of KeyBuf that holds a symbol of kind k (1 for .0).
KeyBufField == [k \in Kinds |->
    CASE k = "Initial" -> 1 [] k = "Medial" -> 2 [] k = "Rime" -> 3
      [] k = "Tone" -> 4]

\* self.key_buf.N.replace(b) for the field of b's kind.
replace(buf, b) == [buf EXCEPT ![KeyBufField[kind(b)]] = Some(b)]

\* An editor of the phonetic module: the Pinyin editor also has key_seq and
\* key_buf_alt, the others leave them empty.
PhoneticEditor(layout) ==
    [layout |-> layout, key_buf |-> EmptyKeyBuf, key_buf_alt |-> EmptyKeyBuf,
     key_seq |-> << >>, variant |-> "none"]

\* The match on key.index of Standard::key_press.
StandardMap ==
    [key \in {"K1", "K2", "K3", "K4", "K5", "K6", "K7", "K8", "K9", "K10",
              "K11", "K15", "K16", "K17", "K18", "K19", "K20", "K21", "K22",
              "K23", "K24", "K27", "K28", "K29", "K30", "K31", "K32", "K33",
              "K34", "K35", "K36", "K38", "K39", "K40", "K41", "K42", "K43",
              "K44", "K45", "K46", "K47", "K48"} |->
        CASE key = "K1" -> "B" [] key = "K2" -> "D" [] key = "K3" -> "TONE3"
          [] key = "K4" -> "TONE4" [] key = "K5" -> "ZH"
          [] key = "K6" -> "TONE2" [] key = "K7" -> "TONE5"
          [] key = "K8" -> "A" [] key = "K9" -> "AI" [] key = "K10" -> "AN"
          [] key = "K11" -> "ER" [] key = "K15" -> "P" [] key = "K16" -> "T"
          [] key = "K17" -> "G" [] key = "K18" -> "J" [] key = "K19" -> "CH"
          [] key = "K20" -> "Z" [] key = "K21" -> "I" [] key = "K22" -> "O"
          [] key = "K23" -> "EI" [] key = "K24" -> "EN" [] key = "K27" -> "M"
          [] key = "K28" -> "N" [] key = "K29" -> "K" [] key = "K30" -> "Q"
          [] key = "K31" -> "SH" [] key = "K32" -> "C" [] key = "K33" -> "U"
          [] key = "K34" -> "E" [] key = "K35" -> "AU" [] key = "K36" -> "ANG"
          [] key = "K38" -> "F" [] key = "K39" -> "L" [] key = "K40" -> "H"
          [] key = "K41" -> "X" [] key = "K42" -> "R" [] key = "K43" -> "S"
          [] key = "K44" -> "IU" [] key = "K45" -> "EH" [] key = "K46" -> "OU"
          [] key = "K47" -> "ENG" [] key = "K48" -> "TONE1"]

\* A Standard whose tone keys are always absorbed.
standard_key_press_absorbing(ed, key) ==
    IF key \notin DOMAIN StandardMap
    THEN [behavior |-> "KeyError", editor |-> ed]
    ELSE [behavior |-> "Absorb",
          editor |-> [ed EXCEPT !.key_buf = replace(@, StandardMap[key])]]

\* Standard::key_press
standard_key_press(ed, key) ==
    IF key \notin DOMAIN StandardMap
    THEN [behavior |-> "KeyError", editor |-> ed]
    ELSE
    LET bopomofo == StandardMap[key]
        buf == ed.key_buf
        taken == IF kind(bopomofo) = "Tone" THEN buf
                 ELSE [buf EXCEPT ![4] = None]
    IN  IF kind(bopomofo) = "Tone" /\ buf # EmptyKeyBuf
        THEN [behavior |-> "TryCommit", editor |-> ed]
        ELSE IF bopomofo = "TONE1"
        THEN [behavior |-> "KeyError",
              editor |-> [ed EXCEPT !.key_buf = taken]]
        ELSE [behavior |-> "Absorb",
              editor |-> [ed EXCEPT !.key_buf = replace(taken, bopomofo)]]

\* The keys pressed on the Standard editor: two initials, two medials, two
\* finals, the tone keys, space (K48) and a key without a symbol (K12).
StandardKeys ==
    {"K1", "K2", "K21", "K33", "K8", "K9", "K3", "K4", "K6", "K7", "K48",
     "K12"}

\* Standard::new()
StandardInit ==
    /\ ConvOff
    /\ DictIdle
    /\ ZhuyinIdle
    /\ editor = PhoneticEditor("Standard")
    /\ elast = NoKey

----------------------------------------------------------------------------
(* The ET26 editor: src/src/editor/phonetic/et26.rs.                       *)

\* is_end_key
et26_is_end_key(buf, key) ==
    IF key \in {"D", "F", "J", "K", "Space"}
    THEN buf[1] # None \/ buf[2] # None \/ buf[3] # None
    ELSE FALSE

\* The initials that an end key turns into finals.
Et26ToFinal ==
    ("P" :> "OU") @@ ("M" :> "AN") @@ ("N" :> "EN") @@ ("T" :> "ANG")
    @@ ("L" :> "ENG") @@ ("H" :> "ER")

\* The tone an end key writes: self.key_buf.3 = tone.
et26_tone(buf, key) ==
    [buf EXCEPT ![4] = CASE key = "F" -> Some("TONE2")
                         [] key = "J" -> Some("TONE3")
                         [] key = "K" -> Some("TONE4")
                         [] key = "D" -> Some("TONE5")
                         [] OTHER -> None]

\* An end key that sets the tone and rewrites nothing.
et26_end_key_unrewritten(buf, key) == et26_tone(buf, key)

\* key_press, the branch of an end key: the buffer it leaves.
et26_end_key(buf, key) ==
    LET rewritten ==
            IF buf[2] = None /\ buf[3] = None /\ buf[1] # None
            THEN CASE buf[1] = Some("J") -> [buf EXCEPT ![1] = Some("ZH")]
                   [] buf[1] = Some("X") -> [buf EXCEPT ![1] = Some("SH")]
                   [] buf[1][1] \in DOMAIN Et26ToFinal ->
                        [buf EXCEPT ![1] = None,
                                    ![3] = Some(Et26ToFinal[buf[1][1]])]
                   [] OTHER -> buf
            ELSE buf
    IN  et26_tone(rewritten, key)

\* The match on key.code of the other branch; None for a key ET26 does not
\* map.
et26_bopomofo(buf, key) ==
    LET either(after, first) ==
            Some(IF buf[1] # None \/ buf[2] # None THEN after ELSE first)
    IN  CASE key = "A" -> Some("A") [] key = "B" -> Some("B")
          [] key = "C" -> Some("X") [] key = "D" -> Some("D")
          [] key = "E" -> Some("I") [] key = "F" -> Some("F")
          [] key = "G" -> Some("J") [] key = "H" -> either("ER", "H")
          [] key = "I" -> Some("AI") [] key = "J" -> Some("R")
          [] key = "K" -> Some("K") [] key = "L" -> either("ENG", "L")
          [] key = "M" -> either("AN", "M") [] key = "N" -> either("EN", "N")
          [] key = "O" -> Some("O") [] key = "P" -> either("OU", "P")
          [] key = "Q" -> either("EI", "Z") [] key = "R" -> Some("E")
          [] key = "S" -> Some("S") [] key = "T" -> either("ANG", "T")
          [] key = "U" -> Some("IU") [] key = "V" -> Some("G")
          [] key = "W" -> either("EH", "C") [] key = "X" -> Some("U")
          [] key = "Y" -> Some("CH") [] key = "Z" -> Some("AU")
          [] OTHER -> None

\* Et26::key_press
et26_key_press(ed, key) ==
    LET buf == ed.key_buf
        b == et26_bopomofo(buf, key)
        bopomofo == b[1]
        retroflexed ==
            CASE buf[1] = Some("J") -> [buf EXCEPT ![1] = Some("ZH")]
              [] buf[1] = Some("X") -> [buf EXCEPT ![1] = Some("SH")]
              [] OTHER -> buf
        fixed ==
            CASE kind(bopomofo) = "Medial" ->
                    IF bopomofo = "U" THEN retroflexed
                    ELSE IF buf[1] = Some("G")
                    THEN [buf EXCEPT ![1] = Some("Q")]
                    ELSE buf
              [] kind(bopomofo) = "Rime" /\ buf[2] = None -> retroflexed
              [] OTHER -> buf
    IN  IF et26_is_end_key(buf, key)
        THEN [behavior |-> "Commit",
              editor |-> [ed EXCEPT !.key_buf = et26_end_key(buf, key)]]
        ELSE IF b = None
        THEN [behavior |-> "NoWord", editor |-> ed]
        ELSE [behavior |-> "Absorb",
              editor |-> [ed EXCEPT !.key_buf = replace(fixed, bopomofo)]]

\* The keys pressed on the ET26 editor: the end keys, the keys of the
\* initials an end key rewrites, two medials, a final, and a key without a
\* symbol.
Et26Keys ==
    { "D", "F", "J", "K", "Space",
      "P", "M", "N", "T", "L", "H", "G", "C", "B",
      "E", "X", "A", "N1" }

----------------------------------------------------------------------------
(* The DachenCP26 editor: src/src/editor/phonetic/dc26.rs.                 *)

\* A default_or_alt that never toggles.
default_or_alt_default(source, default, alt) == default

default_or_alt(source, default, alt) ==
    IF source = None THEN default
    ELSE IF source[1] = default THEN alt ELSE default

\* is_end_key
dc26_is_end_key(buf, key) ==
    IF key \in {"K17", "K18", "K29", "K20", "K48"}
    THEN buf[1] # None \/ buf[2] # None \/ buf[3] # None
    ELSE FALSE

\* The keys that toggle between two symbols: the field of KeyBuf they look
\* at, the default and the alternative.
Dc26Toggle ==
    ("K15" :> <<1, "B", "P">>) @@ ("K16" :> <<1, "D", "T">>)
    @@ ("K19" :> <<1, "ZH", "CH">>) @@ ("K22" :> <<3, "O", "AI">>)
    @@ ("K23" :> <<3, "EI", "AN">>) @@ ("K35" :> <<3, "AU", "ANG">>)
    @@ ("K24" :> <<3, "EN", "ER">>)

\* The match on key.index for the keys that give one symbol; None for the
\* keys it does not list.
dc26_bopomofo(buf, key) ==
    LET either(after, first) ==
            Some(IF buf[1] # None \/ buf[2] # None THEN after ELSE first)
    IN  CASE key \in DOMAIN Dc26Toggle ->
                Some(default_or_alt(buf[Dc26Toggle[key][1]],
                                    Dc26Toggle[key][2], Dc26Toggle[key][3]))
          [] key = "K27" -> Some("M") [] key = "K38" -> Some("F")
          [] key = "K28" -> Some("N") [] key = "K39" -> Some("L")
          [] key = "K17" -> Some("G") [] key = "K29" -> Some("K")
          [] key = "K40" -> Some("H") [] key = "K18" -> Some("J")
          [] key = "K30" -> Some("Q") [] key = "K41" -> Some("X")
          [] key = "K31" -> Some("SH") [] key = "K42" -> either("EH", "R")
          [] key = "K20" -> Some("Z") [] key = "K32" -> Some("C")
          [] key = "K43" -> either("ENG", "S") [] key = "K21" -> Some("I")
          [] key = "K33" -> Some("U") [] key = "K44" -> Some("IU")
          [] key = "K34" -> Some("E")
          [] OTHER -> None

\* The arms of K21 and K44 that change the buffer and return at once; None
\* when no arm matches.
dc26_early(buf, key) ==
    LET med == buf[2]
        fin == buf[3]
    IN  CASE key = "K21" /\ med = Some("I") /\ fin = Some("A") ->
                Some([buf EXCEPT ![2] = None, ![3] = None])
          [] key = "K21" /\ med # Some("I") /\ fin = Some("A") ->
                Some([buf EXCEPT ![2] = Some("I")])
          [] key = "K21" /\ med = Some("I") /\ fin # Some("A") ->
                Some([buf EXCEPT ![2] = None, ![3] = Some("A")])
          [] key = "K21" /\ med \notin {None, Some("I")}
                         /\ fin # Some("A") ->
                Some([buf EXCEPT ![3] = Some("A")])
          [] key = "K44" /\ med = Some("IU") /\ fin # Some("OU") ->
                Some([buf EXCEPT ![2] = None, ![3] = Some("OU")])
          [] key = "K44" /\ med # Some("IU") /\ fin = Some("OU") ->
                Some([buf EXCEPT ![2] = Some("IU"), ![3] = None])
          [] key = "K44" /\ med = Some("IU") /\ fin = Some("OU") ->
                Some([buf EXCEPT ![3] = Some("OU")])
          [] key = "K44" /\ med \notin {None, Some("IU")}
                         /\ fin # Some("OU") ->
                Some([buf EXCEPT ![3] = Some("OU")])
          [] OTHER -> None

\* DaiChien26::key_press
dc26_key_press(ed, key) ==
    LET buf == ed.key_buf
        tone == CASE key = "K17" -> Some("TONE2")
                  [] key = "K18" -> Some("TONE3")
                  [] key = "K29" -> Some("TONE4")
                  [] key = "K20" -> Some("TONE5")
                  [] OTHER -> None
        b == dc26_bopomofo(buf, key)
        early == dc26_early(buf, key)
    IN  IF dc26_is_end_key(buf, key)
        THEN [behavior |-> "Commit",
              editor |-> [ed EXCEPT !.key_buf[4] = tone]]
        ELSE IF early # None
        THEN [behavior |-> "Absorb",
              editor |-> [ed EXCEPT !.key_buf = early[1]]]
        ELSE IF b = None
        THEN [behavior |-> "KeyError", editor |-> ed]
        ELSE [behavior |-> "Absorb",
              editor |-> [ed EXCEPT !.key_buf = replace(buf, b[1])]]

\* The keys pressed on the DachenCP26 editor: four of the toggling keys,
\* three end keys, the keys of I and IU, of U and M, of R or EH, and a key
\* without a symbol.
Dc26Keys ==
    { "K15", "K16", "K22", "K23", "K17", "K20", "K48",
      "K21", "K44", "K33", "K27", "K42", "K12" }

----------------------------------------------------------------------------
(* The Pinyin editor: src/src/editor/phonetic/pinyin.rs.  key_seq is the   *)
(* sequence of the typed characters; a table's pinyin is written the same  *)
(* way.                                                                    *)

MAX_PINYIN_LEN == 10

\* The macros amb!, ini! and fin!.
amb_entry(pinyin, pi, pm, pf, ai, am, af) ==
    [pinyin |-> pinyin, primary |-> KeyBuf(pi, pm, pf, None),
     alt |-> KeyBuf(ai, am, af, None)]

ini_entry(pinyin, bopomofo) == [pinyin |-> pinyin, initial |-> bopomofo]

fin_entry(pinyin, medial, fina) ==
    [pinyin |-> pinyin, medial |-> medial, fina |-> fina]

COMMON_MAPPING ==
    << amb_entry(<<"t","z","u">>,
                 Some("Z"), None, None,
                 Some("Z"), Some("U"), None),
       amb_entry(<<"s","s","u">>,
                 Some("S"), None, None,
                 Some("S"), Some("U"), None),
       amb_entry(<<"s","z","u">>,
                 Some("S"), None, None,
                 Some("S"), Some("U"), None),
       amb_entry(<<"e">>,
                 Some("E"), None, None,
                 Some("EH"), None, None),
       amb_entry(<<"c","h">>,
                 Some("CH"), None, None,
                 Some("Q"), None, None),
       amb_entry(<<"s","h">>,
                 Some("SH"), None, None,
                 Some("X"), None, None),
       amb_entry(<<"c">>,
                 Some("C"), None, None,
                 Some("Q"), None, None),
       amb_entry(<<"s">>,
                 Some("S"), None, None,
                 Some("X"), None, None),
       amb_entry(<<"n","u">>,
                 Some("N"), Some("U"), None,
                 Some("N"), Some("IU"), None),
       amb_entry(<<"l","u">>,
                 Some("L"), Some("U"), None,
                 Some("L"), Some("IU"), None),
       amb_entry(<<"l","u","a","n">>,
                 Some("L"), Some("U"), Some("AN"),
                 Some("L"), Some("IU"), Some("AN")),
       amb_entry(<<"n","i","u">>,
                 Some("N"), Some("I"), Some("OU"),
                 Some("N"), Some("IU"), None),
       amb_entry(<<"l","i","u">>,
                 Some("L"), Some("I"), Some("OU"),
                 Some("L"), Some("IU"), None),
       amb_entry(<<"j","i","u">>,
                 Some("J"), Some("I"), Some("OU"),
                 Some("J"), Some("IU"), None),
       amb_entry(<<"c","h","i","u">>,
                 Some("Q"), Some("I"), Some("OU"),
                 Some("Q"), Some("IU"), None),
       amb_entry(<<"s","h","i","u">>,
                 Some("X"), Some("I"), Some("OU"),
                 Some("X"), Some("IU"), None),
       amb_entry(<<"j","u">>,
                 Some("J"), Some("IU"), None,
                 Some("ZH"), Some("U"), None),
       amb_entry(<<"j","u","a","n">>,
                 Some("J"), Some("IU"), Some("AN"),
                 Some("ZH"), Some("U"), Some("AN")) >>

HANYU_PINYIN_MAPPING ==
    << amb_entry(<<"c","h","i">>,
                 Some("CH"), None, None,
                 Some("Q"), Some("I"), None),
       amb_entry(<<"s","h","i">>,
                 Some("SH"), None, None,
                 Some("X"), Some("I"), None),
       amb_entry(<<"c","i">>,
                 Some("C"), None, None,
                 Some("Q"), Some("I"), None),
       amb_entry(<<"s","i">>,
                 Some("S"), None, None,
                 Some("X"), Some("I"), None) >>

THL_PINYIN_MAPPING ==
    << amb_entry(<<"c","h","i">>,
                 Some("Q"), Some("I"), None,
                 Some("CH"), None, None),
       amb_entry(<<"s","h","i">>,
                 Some("X"), Some("I"), None,
                 Some("SH"), None, None),
       amb_entry(<<"c","i">>,
                 Some("Q"), Some("I"), None,
                 Some("C"), None, None),
       amb_entry(<<"s","i">>,
                 Some("X"), Some("I"), None,
                 Some("S"), None, None) >>

MPS2_PINYIN_MAPPING ==
    << amb_entry(<<"c","h","i">>,
                 Some("Q"), Some("I"), None,
                 Some("CH"), None, None),
       amb_entry(<<"s","h","i">>,
                 Some("X"), Some("I"), None,
                 Some("SH"), None, None),
       amb_entry(<<"c","i">>,
                 Some("Q"), Some("I"), None,
                 Some("C"), None, None),
       amb_entry(<<"s","i">>,
                 Some("X"), Some("I"), None,
                 Some("S"), None, None),
       amb_entry(<<"n","i","u">>,
                 Some("N"), Some("IU"), None,
                 Some("N"), Some("I"), Some("OU")),
       amb_entry(<<"l","i","u">>,
                 Some("L"), Some("IU"), None,
                 Some("L"), Some("I"), Some("OU")),
       amb_entry(<<"j","i","u">>,
                 Some("J"), Some("IU"), None,
                 Some("J"), Some("I"), Some("OU")),
       amb_entry(<<"c","h","i","u">>,
                 Some("Q"), Some("IU"), None,
                 Some("Q"), Some("I"), Some("OU")),
       amb_entry(<<"s","h","i","u">>,
                 Some("X"), Some("IU"), None,
                 Some("X"), Some("I"), Some("OU")),
       amb_entry(<<"j","u">>,
                 Some("ZH"), Some("U"), None,
                 Some("J"), Some("IU"), None),
       amb_entry(<<"j","u","a","n">>,
                 Some("ZH"), Some("U"), Some("AN"),
                 Some("J"), Some("IU"), Some("AN")),
       amb_entry(<<"j","u","e","n">>,
                 Some("ZH"), Some("U"), Some("EN"),
                 Some("J"), Some("IU"), Some("EN")),
       amb_entry(<<"t","z","u">>,
                 Some("Z"), Some("U"), None,
                 Some("Z"), None, None) >>

INITIAL_MAPPING ==
    << ini_entry(<<"t","z">>, "Z"),
       ini_entry(<<"b">>, "B"),
       ini_entry(<<"p">>, "P"),
       ini_entry(<<"m">>, "M"),
       ini_entry(<<"f">>, "F"),
       ini_entry(<<"d">>, "D"),
       ini_entry(<<"t","s">>, "C"),
       ini_entry(<<"t">>, "T"),
       ini_entry(<<"n">>, "N"),
       ini_entry(<<"l">>, "L"),
       ini_entry(<<"g">>, "G"),
       ini_entry(<<"k">>, "K"),
       ini_entry(<<"h","s">>, "X"),
       ini_entry(<<"h">>, "H"),
       ini_entry(<<"j","h">>, "ZH"),
       ini_entry(<<"j">>, "J"),
       ini_entry(<<"q">>, "Q"),
       ini_entry(<<"x">>, "X"),
       ini_entry(<<"z","h">>, "ZH"),
       ini_entry(<<"c","h">>, "CH"),
       ini_entry(<<"s","h">>, "SH"),
       ini_entry(<<"r">>, "R"),
       ini_entry(<<"z">>, "Z"),
       ini_entry(<<"c">>, "C"),
       ini_entry(<<"s">>, "S") >>

FINAL_MAPPING ==
    << fin_entry(<<"u","a","n","g">>, Some("U"), Some("ANG")),
       fin_entry(<<"w","a","n","g">>, Some("U"), Some("ANG")),
       fin_entry(<<"w","e","n","g">>, Some("U"), Some("ENG")),
       fin_entry(<<"w","o","n","g">>, Some("U"), Some("ENG")),
       fin_entry(<<"y","i","n","g">>, Some("I"), Some("ENG")),
       fin_entry(<<"y","u","n","g">>, Some("IU"), Some("ENG")),
       fin_entry(<<"y","o","n","g">>, Some("IU"), Some("ENG")),
       fin_entry(<<"i","u","n","g">>, Some("IU"), Some("ENG")),
       fin_entry(<<"i","o","n","g">>, Some("IU"), Some("ENG")),
       fin_entry(<<"i","a","n","g">>, Some("I"), Some("ANG")),
       fin_entry(<<"y","a","n","g">>, Some("I"), Some("ANG")),
       fin_entry(<<"y","u","a","n">>, Some("IU"), Some("AN")),
       fin_entry(<<"i","u","a","n">>, Some("IU"), Some("AN")),
       fin_entry(<<"i","n","g">>, Some("I"), Some("ENG")),
       fin_entry(<<"i","a","o">>, Some("I"), Some("AU")),
       fin_entry(<<"i","a","u">>, Some("I"), Some("AU")),
       fin_entry(<<"y","a","o">>, Some("I"), Some("AU")),
       fin_entry(<<"y","a","u">>, Some("I"), Some("AU")),
       fin_entry(<<"y","u","n">>, Some("IU"), Some("EN")),
       fin_entry(<<"i","u","n">>, Some("IU"), Some("EN")),
       fin_entry(<<"v","n">>, Some("IU"), Some("EN")),
       fin_entry(<<"i","o","u">>, Some("I"), Some("OU")),
       fin_entry(<<"i","u">>, Some("I"), Some("OU")),
       fin_entry(<<"y","o","u">>, Some("I"), Some("OU")),
       fin_entry(<<"i","o">>, Some("I"), Some("O")),
       fin_entry(<<"y","o">>, Some("I"), Some("O")),
       fin_entry(<<"i","a","n">>, Some("I"), Some("AN")),
       fin_entry(<<"i","e","n">>, Some("I"), Some("AN")),
       fin_entry(<<"y","a","n">>, Some("I"), Some("AN")),
       fin_entry(<<"y","e","n">>, Some("I"), Some("AN")),
       fin_entry(<<"y","i","n">>, Some("I"), Some("EN")),
       fin_entry(<<"a","n","g">>, None, Some("ANG")),
       fin_entry(<<"e","n","g">>, None, Some("ENG")),
       fin_entry(<<"u","e","i">>, Some("U"), Some("EI")),
       fin_entry(<<"u","i">>, Some("U"), Some("EI")),
       fin_entry(<<"w","e","i">>, Some("U"), Some("EI")),
       fin_entry(<<"u","e","n">>, Some("U"), Some("EN")),
       fin_entry(<<"y","u","e","h">>, Some("IU"), Some("EH")),
       fin_entry(<<"y","u","e">>, Some("IU"), Some("EH")),
       fin_entry(<<"i","u","e">>, Some("IU"), Some("EH")),
       fin_entry(<<"u","e","h">>, Some("IU"), Some("EH")),
       fin_entry(<<"u","e">>, Some("IU"), Some("EH")),
       fin_entry(<<"v","e">>, Some("IU"), Some("EH")),
       fin_entry(<<"u","a","i">>, Some("U"), Some("AI")),
       fin_entry(<<"w","a","i">>, Some("U"), Some("AI")),
       fin_entry(<<"u","a","n">>, Some("U"), Some("AN")),
       fin_entry(<<"w","a","n">>, Some("U"), Some("AN")),
       fin_entry(<<"u","n">>, Some("U"), Some("EN")),
       fin_entry(<<"w","e","n">>, Some("U"), Some("EN")),
       fin_entry(<<"w","u","n">>, Some("U"), Some("EN")),
       fin_entry(<<"u","n","g">>, Some("U"), Some("ENG")),
       fin_entry(<<"o","n","g">>, Some("U"), Some("ENG")),
       fin_entry(<<"v","a","n">>, Some("IU"), Some("AN")),
       fin_entry(<<"e","r">>, None, Some("ER")),
       fin_entry(<<"a","i">>, None, Some("AI")),
       fin_entry(<<"e","i">>, None, Some("EI")),
       fin_entry(<<"a","o">>, None, Some("AU")),
       fin_entry(<<"a","u">>, None, Some("AU")),
       fin_entry(<<"o","u">>, None, Some("OU")),
       fin_entry(<<"a","n">>, None, Some("AN")),
       fin_entry(<<"e","n">>, None, Some("EN")),
       fin_entry(<<"y","i">>, None, Some("I")),
       fin_entry(<<"i","a">>, Some("I"), Some("A")),
       fin_entry(<<"y","a">>, Some("I"), Some("A")),
       fin_entry(<<"i","e","h">>, Some("I"), Some("EH")),
       fin_entry(<<"i","e">>, Some("I"), Some("EH")),
       fin_entry(<<"y","e","h">>, Some("I"), Some("EH")),
       fin_entry(<<"y","e">>, Some("I"), Some("EH")),
       fin_entry(<<"i","n">>, Some("I"), Some("EN")),
       fin_entry(<<"w","u">>, Some("U"), None),
       fin_entry(<<"u","a">>, Some("U"), Some("A")),
       fin_entry(<<"w","a">>, Some("U"), Some("A")),
       fin_entry(<<"u","o">>, Some("U"), Some("O")),
       fin_entry(<<"w","o">>, Some("U"), Some("O")),
       fin_entry(<<"y","u">>, Some("IU"), None),
       fin_entry(<<"v","e">>, Some("IU"), Some("EH")),
       fin_entry(<<"v","n">>, Some("IU"), Some("EN")),
       fin_entry(<<"i","h">>, None, None),
       fin_entry(<<"a">>, None, Some("A")),
       fin_entry(<<"o">>, None, Some("O")),
       fin_entry(<<"e","h">>, None, Some("EH")),
       fin_entry(<<"e">>, None, Some("E")),
       fin_entry(<<"v">>, Some("IU"), None),
       fin_entry(<<"i">>, Some("I"), None),
       fin_entry(<<"u">>, Some("U"), None),
       fin_entry(<<"E">>, None, Some("EH")),
       fin_entry(<<"n">>, None, Some("EN")),
       fin_entry(<<"n","g">>, None, Some("ENG")),
       fin_entry(<<"r">>, None, None),
       fin_entry(<<"z">>, None, None) >>

\* The character of a letter key: the match on key.code.
PinyinLetter ==
    ("A" :> "a") @@ ("B" :> "b") @@ ("C" :> "c") @@ ("D" :> "d")
    @@ ("E" :> "e") @@ ("F" :> "f") @@ ("G" :> "g") @@ ("H" :> "h")
    @@ ("I" :> "i") @@ ("J" :> "j") @@ ("K" :> "k") @@ ("L" :> "l")
    @@ ("M" :> "m") @@ ("N" :> "n") @@ ("O" :> "o") @@ ("P" :> "p")
    @@ ("Q" :> "q") @@ ("R" :> "r") @@ ("S" :> "s") @@ ("T" :> "t")
    @@ ("U" :> "u") @@ ("V" :> "v") @@ ("W" :> "w") @@ ("X" :> "x")
    @@ ("Y" :> "y") @@ ("Z" :> "z")

PinyinToneKeys == {"Space", "N1", "N2", "N3", "N4", "N5"}

\* str::starts_with
starts_with(str, prefix) ==
    /\ Len(prefix) <= Len(str)
    /\ SubSeq(str, 1, Len(prefix)) = prefix

\* str::trim_start_matches: the prefix is removed as often as it repeats.
RECURSIVE trim_start_matches(_, _)
trim_start_matches(str, prefix) ==
    IF starts_with(str, prefix)
    THEN trim_start_matches(SubSeq(str, Len(prefix) + 1, Len(str)), prefix)
    ELSE str

\* table.iter().find(|entry| entry.pinyin == str)
find_pinyin(table, str) ==
    LET found == {i \in DOMAIN table : table[i].pinyin = str}
    IN  IF found = {} THEN None
        ELSE Some(table[CHOOSE i \in found : \A j \in found : i <= j])

\* INITIAL_MAPPING.iter().find(|entry| str.starts_with(&entry.pinyin))
find_initial(str) ==
    LET found == {i \in DOMAIN INITIAL_MAPPING :
                     starts_with(str, INITIAL_MAPPING[i].pinyin)}
    IN  IF found = {} THEN None
        ELSE Some(INITIAL_MAPPING[CHOOSE i \in found :
                                      \A j \in found : i <= j])

\* The syllable a tone key builds from an initial and a final, with the
\* rules that follow the two lookups.
pinyin_compose(initial, fina) ==
    LET ini0 == IF initial = None THEN None ELSE Some(initial[1].initial)
        med0 == IF fina = None THEN None ELSE fina[1].medial
        fin0 == IF fina = None THEN None ELSE fina[1].fina
        bare == /\ fin0 = Some("I")
                /\ ini0 \in {Some("ZH"), Some("CH"), Some("SH"), Some("R"),
                             Some("Z"), Some("C"), Some("S")}
        med1 == IF bare THEN None ELSE med0
        fin1 == IF bare THEN None ELSE fin0
        med2 == IF /\ ini0 \in {Some("J"), Some("Q"), Some("X")}
                   /\ med1 = Some("U")
                   /\ fin1 \in {Some("AN"), Some("EN"), None}
                THEN Some("IU") ELSE med1
        ini1 == IF med2 \in {Some("I"), Some("IU")}
                THEN CASE ini0 \in {Some("S"), Some("SH")} -> Some("X")
                       [] ini0 \in {Some("C"), Some("CH")} -> Some("Q")
                       [] OTHER -> ini0
                ELSE IF ini0 = Some("J") THEN Some("ZH") ELSE ini0
        med3 == IF /\ ini1 \in {Some("B"), Some("P"), Some("M"), Some("F")}
                   /\ med2 = Some("U")
                   /\ fin1 \in {Some("ENG"), Some("O")}
                THEN None ELSE med2
    IN  KeyBuf(ini1, med3, fin1, None)

\* A letter branch without the limit on the buffer.
pinyin_letter_unbounded(ed, key) ==
    IF key \notin DOMAIN PinyinLetter
    THEN [behavior |-> "KeyError", editor |-> ed]
    ELSE [behavior |-> "Absorb",
          editor |-> [ed EXCEPT !.key_seq = Append(@, PinyinLetter[key])]]

\* key_press, the branch of a key that is not a tone key.
pinyin_letter(ed, key) ==
    IF Len(ed.key_seq) = MAX_PINYIN_LEN
    THEN [behavior |-> "NoWord", editor |-> ed]
    ELSE IF key \notin DOMAIN PinyinLetter
    THEN [behavior |-> "KeyError", editor |-> ed]
    ELSE [behavior |-> "Absorb",
          editor |-> [ed EXCEPT !.key_seq = Append(@, PinyinLetter[key])]]

\* Pinyin::key_press
pinyin_key_press(ed, key) ==
    LET str == ed.key_seq
        variant_entry ==
            find_pinyin(CASE ed.variant = "HanyuPinyin" ->
                                HANYU_PINYIN_MAPPING
                          [] ed.variant = "ThlPinyin" -> THL_PINYIN_MAPPING
                          [] ed.variant = "Mps2Pinyin" -> MPS2_PINYIN_MAPPING,
                        str)
        common_entry == find_pinyin(COMMON_MAPPING, str)
        initial == find_initial(str)
        final_seq == IF initial = None THEN str
                     ELSE trim_start_matches(str, initial[1].pinyin)
        fina == find_pinyin(FINAL_MAPPING, final_seq)
        committed(primary, alt) ==
            [behavior |-> "TryCommit",
             editor |-> [ed EXCEPT !.key_seq = << >>, !.key_buf = primary,
                                   !.key_buf_alt = alt]]
    IN  IF key \notin PinyinToneKeys THEN pinyin_letter(ed, key)
        ELSE IF variant_entry # None
        THEN committed(variant_entry[1].primary, variant_entry[1].alt)
        ELSE IF common_entry # None
        THEN committed(common_entry[1].primary, common_entry[1].alt)
        ELSE IF initial = None /\ fina = None
        THEN [behavior |-> "Absorb",
              editor |-> [ed EXCEPT !.key_seq = << >>]]
        ELSE committed(pinyin_compose(initial, fina),
                       pinyin_compose(initial, fina))

\* The keys pressed on the Pinyin editor: two letters, three of the tone
\* keys, and a key that is neither.
PinyinKeys == {"S", "I", "Space", "N1", "N3", "Minus"}

PinyinVariants == {"HanyuPinyin", "ThlPinyin", "Mps2Pinyin"}

\* What the history keeps of the editor before a call.
Before(ed) == [key_buf |-> ed.key_buf, len |-> Len(ed.key_seq)]

\* key_press of the editor of the session's layout.
key_press(ed, key) ==
    CASE ed.layout = "Standard" -> standard_key_press(ed, key)
      [] ed.layout = "Et26" -> et26_key_press(ed, key)
      [] ed.layout = "Dc26" -> dc26_key_press(ed, key)
      [] ed.layout = "Pinyin" -> pinyin_key_press(ed, key)

PhoneticKeyPress(key) ==
    /\ LET r == key_press(editor, key)
       IN  /\ editor' = r.editor
           /\ elast' = [key |-> key, behavior |-> r.behavior,
                        typed |-> None, before |-> Before(editor)]
    /\ EditorFrame

\* pop() of Standard and DaiChien26: the last field that is set is taken.
PhoneticPop ==
    /\ LET buf == editor.key_buf
           last_set == IF buf[4] # None THEN 4 ELSE IF buf[3] # None THEN 3
                       ELSE IF buf[2] # None THEN 2 ELSE 1
       IN  editor' = [editor EXCEPT !.key_buf[last_set] = None]
    /\ elast' = [key |-> "pop", behavior |-> "none", typed |-> None,
                 before |-> Before(editor)]
    /\ EditorFrame

\* clear()
PhoneticClear ==
    /\ editor' = [editor EXCEPT !.key_seq = << >>,
                                !.key_buf = EmptyKeyBuf,
                                !.key_buf_alt = EmptyKeyBuf]
    /\ elast' = [key |-> "clear", behavior |-> "none", typed |-> None,
                 before |-> Before(editor)]
    /\ EditorFrame

StandardNext ==
    \/ \E key \in StandardKeys : PhoneticKeyPress(key)
    \/ PhoneticPop
    \/ PhoneticClear

SpecStandard == StandardInit /\ [][StandardNext]_vars

\* Et26::new()
Et26Init ==
    /\ ConvOff
    /\ DictIdle
    /\ ZhuyinIdle
    /\ editor = PhoneticEditor("Et26")
    /\ elast = NoKey

Et26Next ==
    \/ \E key \in Et26Keys : PhoneticKeyPress(key)
    \/ PhoneticPop
    \/ PhoneticClear

SpecEt26 == Et26Init /\ [][Et26Next]_vars

\* DaiChien26::new()
Dc26Init ==
    /\ ConvOff
    /\ DictIdle
    /\ ZhuyinIdle
    /\ editor = PhoneticEditor("Dc26")
    /\ elast = NoKey

Dc26Next ==
    \/ \E key \in Dc26Keys : PhoneticKeyPress(key)
    \/ PhoneticPop
    \/ PhoneticClear

SpecDc26 == Dc26Init /\ [][Dc26Next]_vars

\* KeyBuf::from_raw_parts: a field is empty for index 0, and otherwise the
\* entry of the index in the map of its kind (Bopomofo::from_initial,
\* from_medial, from_final, from_tone; the maps count from 1).
from_raw_parts(pho_inx) ==
    KeyBuf(IF pho_inx[1] = 0 THEN None
           ELSE Some(SLOT_MAP["Initial"][pho_inx[1]]),
           IF pho_inx[2] = 0 THEN None
           ELSE Some(SLOT_MAP["Medial"][pho_inx[2]]),
           IF pho_inx[3] = 0 THEN None
           ELSE Some(SLOT_MAP["Rime"][pho_inx[3]]),
           IF pho_inx[4] = 0 THEN None
           ELSE Some(SLOT_MAP["Tone"][pho_inx[4]]))

MaxKeySeq == 13      \* longest key_seq the runs let a letter build

\* The arguments Pinyin::from_raw_parts is called with: an empty editor of
\* each variant, editors that hold a buffer and indices, and one whose
\* raw_seq is longer than MAX_PINYIN_LEN.
PinyinRawParts ==
    { [kb_type |-> v, raw_seq |-> << >>, pho_inx |-> <<0, 0, 0, 0>>,
       pho_inx_alt |-> <<0, 0, 0, 0>>] : v \in PinyinVariants }
    \cup
    { [kb_type |-> "ThlPinyin", raw_seq |-> <<"a", "b", "c">>,
       pho_inx |-> <<1, 0, 0, 0>>, pho_inx_alt |-> <<0, 0, 0, 2>>],
      [kb_type |-> "Mps2Pinyin", raw_seq |-> <<"s", "i">>,
       pho_inx |-> <<21, 0, 0, 3>>, pho_inx_alt |-> <<14, 1, 9, 0>>],
      [kb_type |-> "HanyuPinyin",
       raw_seq |-> <<"a", "b", "c", "d", "e", "f", "g", "h", "i", "j", "k",
                     "l">>,
       pho_inx |-> <<0, 0, 0, 0>>, pho_inx_alt |-> <<0, 0, 0, 0>>] }

\* Pinyin::from_raw_parts; Pinyin::new() is the editor of the Hanyu variant
\* with an empty raw_seq and indices 0.
PinyinInit ==
    /\ ConvOff
    /\ DictIdle
    /\ ZhuyinIdle
    /\ \E p \in PinyinRawParts :
          editor = [layout |-> "Pinyin", key_seq |-> p.raw_seq,
                    key_buf |-> from_raw_parts(p.pho_inx),
                    key_buf_alt |-> from_raw_parts(p.pho_inx_alt),
                    variant |-> p.kb_type]
    /\ elast = NoKey

\* pop() of Pinyin is todo!(): the session never calls it.  A letter is
\* pressed while key_seq is shorter than MaxKeySeq, which bounds the runs:
\* above MAX_PINYIN_LEN the code goes on appending.
PinyinNext ==
    \/ \E key \in PinyinKeys :
           /\ key \in DOMAIN PinyinLetter =>
                  Len(editor.key_seq) < MaxKeySeq
           /\ PhoneticKeyPress(key)
    \/ PhoneticClear

SpecPinyin == PinyinInit /\ [][PinyinNext]_vars


----------------------------------------------------------------------------
(* Claims about the Standard editor.                                       *)

StandardToneKeys == {"K3", "K4", "K6", "K7", "K48"}

\* C33 as stated: a tone key (space or a tone position) commits exactly
\* when the buffer had a slot set, and returns KeyError on an empty buffer.
C33_ToneKeyCommitsOrKeyError ==
    elast.key \in StandardToneKeys =>
        IF elast.before.key_buf # EmptyKeyBuf
        THEN elast.behavior = "TryCommit"
        ELSE elast.behavior = "KeyError"

\* C33 amended: a tone key returns TryCommit exactly when the buffer had a
\* slot set, and leaves the buffer as it was; on an empty buffer space
\* returns KeyError and the buffer stays empty, and the keys of tones 2 to
\* 5 return Absorb and set the tone slot.
C33_ToneKeyOnBuffer ==
    elast.key \in StandardToneKeys =>
        IF elast.before.key_buf # EmptyKeyBuf
        THEN /\ elast.behavior = "TryCommit"
             /\ editor.key_buf = elast.before.key_buf
        ELSE IF elast.key = "K48"
        THEN elast.behavior = "KeyError" /\ editor.key_buf = EmptyKeyBuf
        ELSE /\ elast.behavior = "Absorb"
             /\ editor.key_buf =
                    KeyBuf(None, None, None, Some(StandardMap[elast.key]))

\* The key of tone 3 has been pressed on a buffer that holds an initial and
\* has returned TryCommit.
C33_Witness ==
    /\ elast.key = "K3"
    /\ elast.before.key_buf[1] # None
    /\ elast.behavior = "TryCommit"


----------------------------------------------------------------------------
(* Claims about the ET26 editor.                                           *)

\* An end key has committed a buffer with an initial, no medial, no final.
Et26EndKeyOnLoneInitial ==
    /\ editor.layout = "Et26"
    /\ elast.key \in {"D", "F", "J", "K", "Space"}
    /\ elast.behavior = "Commit"
    /\ elast.before.key_buf[1] # None
    /\ elast.before.key_buf[2] = None
    /\ elast.before.key_buf[3] = None

\* C34: an end key pressed on a buffer that holds only an initial leaves
\* OU, AN, EN, ANG, ENG, ER as the final and no initial where the initial
\* was P, M, N, T, L, H, and the initials ZH and SH where it was J and X.
C34_LoneInitialRewritten ==
    Et26EndKeyOnLoneInitial =>
        LET ini == elast.before.key_buf[1][1]
        IN  /\ ini \in {"P", "M", "N", "T", "L", "H"} =>
                /\ editor.key_buf[1] = None
                /\ editor.key_buf[3] =
                     Some(CASE ini = "P" -> "OU" [] ini = "M" -> "AN"
                            [] ini = "N" -> "EN" [] ini = "T" -> "ANG"
                            [] ini = "L" -> "ENG" [] ini = "H" -> "ER")
            /\ ini = "J" =>
                editor.key_buf[1] = Some("ZH") /\ editor.key_buf[3] = None
            /\ ini = "X" =>
                editor.key_buf[1] = Some("SH") /\ editor.key_buf[3] = None

\* Space has committed the lone initial T as the final ANG.
C34_Witness ==
    /\ Et26EndKeyOnLoneInitial
    /\ elast.key = "Space"
    /\ elast.before.key_buf[1] = Some("T")
    /\ editor.key_buf = KeyBuf(None, None, Some("ANG"), None)


----------------------------------------------------------------------------
(* Claims about the DachenCP26 editor.                                     *)

\* One of the toggling keys has been pressed and taken as a symbol.
Dc26Toggled ==
    /\ editor.layout = "Dc26"
    /\ elast.key \in DOMAIN Dc26Toggle
    /\ elast.behavior = "Absorb"

ToggleField == Dc26Toggle[elast.key][1]

ToggleDefault == Dc26Toggle[elast.key][2]

ToggleAlt == Dc26Toggle[elast.key][3]

\* C35 as stated: a toggling key writes alt when the slot was empty or
\* held default, and default otherwise.
C35_AltOnEmptyOrDefault ==
    Dc26Toggled =>
        editor.key_buf[ToggleField] =
            IF elast.before.key_buf[ToggleField]
                   \in {None, Some(ToggleDefault)}
            THEN Some(ToggleAlt) ELSE Some(ToggleDefault)

\* C35 amended: a toggling key writes alt when the slot held default, and
\* default when the slot was empty or held any other symbol.
C35_AltOnDefault ==
    Dc26Toggled =>
        editor.key_buf[ToggleField] =
            IF elast.before.key_buf[ToggleField] = Some(ToggleDefault)
            THEN Some(ToggleAlt) ELSE Some(ToggleDefault)

\* K15 has been pressed on a buffer whose initial was B and has written P.
C35_Witness ==
    /\ Dc26Toggled
    /\ elast.key = "K15"
    /\ elast.before.key_buf[1] = Some("B")
    /\ editor.key_buf[1] = Some("P")


----------------------------------------------------------------------------
(* Claims about the Pinyin editor.                                         *)

\* A letter key has been pressed on the Pinyin editor.
PinyinLetterPressed ==
    /\ editor.layout = "Pinyin"
    /\ elast.key \in DOMAIN PinyinLetter

\* C36 as stated: every letter key returns Absorb, whatever the buffer
\* holds.
C36_LetterAlwaysAbsorbed ==
    PinyinLetterPressed => elast.behavior = "Absorb"

\* C36 amended: a letter key returns NoWord and leaves the buffer as it is
\* when the buffer holds exactly 10 characters; on every other buffer, a
\* longer one included, it returns Absorb and adds its character.
C36_LetterAbsorbedUnlessFull ==
    PinyinLetterPressed =>
        IF elast.before.len = MAX_PINYIN_LEN
        THEN /\ elast.behavior = "NoWord"
             /\ Len(editor.key_seq) = MAX_PINYIN_LEN
        ELSE /\ elast.behavior = "Absorb"
             /\ Len(editor.key_seq) = elast.before.len + 1
             /\ editor.key_seq[Len(editor.key_seq)] = PinyinLetter[elast.key]

\* A letter has been pressed on a buffer of 10 characters and refused.
C36_Witness ==
    /\ PinyinLetterPressed
    /\ elast.before.len = MAX_PINYIN_LEN
    /\ elast.behavior = "NoWord"

\* The tone a tone key stands for; tone 1 is the unmarked tone, kept as no
\* tone or as TONE1.
PinyinTone ==
    ("Space" :> {None, Some("TONE1")}) @@ ("N1" :> {None, Some("TONE1")})
    @@ ("N2" :> {Some("TONE2")}) @@ ("N3" :> {Some("TONE3")})
    @@ ("N4" :> {Some("TONE4")}) @@ ("N5" :> {Some("TONE5")})

\* C37: when a tone key has committed the buffer, the primary and the
\* alternate syllable both carry the tone of that key.
C37_BothCarryTone ==
    (/\ editor.layout = "Pinyin"
     /\ elast.key \in PinyinToneKeys
     /\ elast.behavior = "TryCommit") =>
        /\ editor.key_buf[4] \in PinyinTone[elast.key]
        /\ editor.key_buf_alt[4] \in PinyinTone[elast.key]


----------------------------------------------------------------------------
(* Further claims about the converter.                                     *)

\* C38: every interval [s, e) returned by convert or convert_next carries
\* the text of a phrase that the dictionary returns for the syllables at
\* positions s..e of the sequence.
C38_IntervalTextInDictionary ==
    Returned =>
        \A i \in 1..Len(result.intervals) :
            LET iv == result.intervals[i]
            IN  \E p \in PhrasesAt(dict, syllables, iv.start, iv.end) :
                    p.phrase = iv.phrase

\* convert_next of the experimental engine has returned a cover with an
\* interval of one syllable and an interval of several syllables.
C38_Witness ==
    /\ Returned
    /\ call.op = "convert_next"
    /\ call.engine = "Experimental"
    /\ \E i, j \in 1..Len(result.intervals) :
           /\ result.intervals[i].end - result.intervals[i].start = 1
           /\ result.intervals[j].end - result.intervals[j].start > 1

\* C39: convert_next of the experimental engine returns: find_all_paths
\* never nests deeper than the positions of the sequence, and so never
\* exhausts the stack, also over a dictionary that returns a phrase for the
\* empty syllable slice.
C39_ConvertNextTerminates ==
    (Called /\ call.op = "convert_next" /\ call.engine = "Experimental") =>
        result.status # "overflow"


----------------------------------------------------------------------------
(* The C API of the user phrases: InitUserphrase, UserUpdatePhrase and     *)
(* TerminateUserphrase over the SqliteDictionary of one file.              *)

C_API_MAX_USER_PHRASE_LEN == 11

\* The u16 buffers handed to UserUpdatePhrase: syllables, then 0.
UserBuffers ==
    { <<1, 0>>, <<2, 0>>, <<1, 2, 0>>,
      [i \in 1..(C_API_MAX_USER_PHRASE_LEN + 2) |->
           IF i <= C_API_MAX_USER_PHRASE_LEN + 1 THEN 1 ELSE 0] }

\* iter().take_while(|syl_u16| syl_u16 != 0)
RECURSIVE take_while_nonzero(_)
take_while_nonzero(buf) ==
    IF buf = << >> \/ Head(buf) = 0 THEN << >>
    ELSE <<Head(buf)>> \o take_while_nonzero(Tail(buf))

Returns(state, file) == [state |-> state, file |-> file]

\* What SqliteUserFreqEstimate::open and now() answer: the estimate is
\* outside the library sources, so its answers are inputs of the calls.
EstimateAnswers == {"ok", "Err"}

\* UserUpdatePhrase: the state it returns ("panic" when an expect or an
\* unwrap fails) and the file afterwards.  user_freq is what
\* estimate.estimate answers and now what estimate.now answers.
user_update_phrase(file, buf, phrase_str, user_freq, now) ==
    LET syls == take_while_nonzero(buf)
        phrases == sqlite_lookup_phrase(file, syls)
    IN  IF Len(syls) > C_API_MAX_USER_PHRASE_LEN
        THEN Returns("Fail", file)
        ELSE IF phrases = << >>
        THEN LET ins == sqlite_insert(file, syls, Phrase(phrase_str, 1))
             IN  IF ins.status # "ok" THEN Returns("panic", ins.value)
                 ELSE Returns("Insert", ins.value)
        ELSE LET found == SelectSeq(phrases,
                                    LAMBDA p : p.phrase = phrase_str)
                 phrase == IF found # << >> THEN found[1]
                           ELSE Phrase(phrase_str, 1)
                 upd == sqlite_update(file, syls, phrase, user_freq)
             IN  IF now # "ok" THEN Returns("panic", file)
                 ELSE IF upd.status # "ok" THEN Returns("panic", upd.value)
                 ELSE Returns("Modify", upd.value)

UserphraseInit ==
    /\ ConvOff
    /\ ZhuyinIdle
    /\ EditorIdle
    /\ layers = << >>
    /\ blocked = << >>
    /\ db \in Files
    /\ handle = "closed"
    /\ last = NoOp
    /\ pre = Snapshot(layers, db)
    /\ nops = 0

UserFrame(op, syls, text, freq, st) ==
    /\ last' = [op |-> op, target |-> 0, syllables |-> syls,
                text |-> text, freq |-> freq, status |-> st]
    /\ pre' = Snapshot(layers, db)
    /\ UNCHANGED <<layers, blocked, cvars, zvars, evars>>

\* InitUserphrase: SqliteDictionary::open, then SqliteUserFreqEstimate::open
\* on the same path; a null pointer when either fails.  The dictionary
\* opened first is dropped then, and the file stays as its open left it.
InitUserphrase(estimate) ==
    /\ handle = "closed"
    /\ LET r == open(db)
           st == IF r.status # "ok" THEN r.status
                 ELSE IF estimate # "ok" THEN "EstimateError"
                 ELSE "ok"
       IN  /\ db' = r.value
           /\ handle' = IF st = "ok" THEN "rw" ELSE "closed"
           /\ UserFrame("InitUserphrase", << >>, "", 0, st)
    /\ UNCHANGED nops

\* TerminateUserphrase drops the dictionary; the file stays.
TerminateUserphrase ==
    /\ handle = "rw"
    /\ handle' = "closed"
    /\ UserFrame("TerminateUserphrase", << >>, "", 0, "ok")
    /\ UNCHANGED <<db, nops>>

\* UserUpdatePhrase; a panic ends the process and leaves the file.
UserUpdatePhrase(buf, phrase_str, user_freq, now) ==
    /\ nops < MaxOps
    /\ handle = "rw"
    /\ LET r == user_update_phrase(db, buf, phrase_str, user_freq, now)
       IN  /\ db' = r.file
           /\ handle' = IF r.state = "panic" THEN "closed" ELSE "rw"
           /\ UserFrame("UserUpdatePhrase", take_while_nonzero(buf),
                        phrase_str, user_freq, r.state)
    /\ nops' = nops + 1

UserphraseNext ==
    \/ \E estimate \in EstimateAnswers : InitUserphrase(estimate)
    \/ TerminateUserphrase
    \/ \E buf \in UserBuffers, text \in TextSet, user_freq \in DFreqs,
          now \in EstimateAnswers :
           UserUpdatePhrase(buf, text, user_freq, now)

SpecUserphrase == UserphraseInit /\ [][UserphraseNext]_vars

\* The text of the last UserUpdatePhrase was stored at its syllables when
\* the call was made.
StoredBefore ==
    \E r \in pre.db.dictionary_v1 :
        r.syllables = last.syllables /\ r.phrase = last.text

\* C40: for a phrase of at most 11 syllables, UserUpdatePhrase returns
\* Insert exactly when the given text was not stored at those syllables
\* before the call, and Modify exactly when it was.
C40_InsertIffTextAbsent ==
    (last.op = "UserUpdatePhrase"
        /\ Len(last.syllables) <= C_API_MAX_USER_PHRASE_LEN) =>
        /\ last.status = "Insert" <=> ~StoredBefore
        /\ last.status = "Modify" <=> StoredBefore


====
